---- MODULE Spec2Model ----
(***************************************************************************)
(* A model of the zimtohrli-py binding layer: the Core Binding API         *)
(* (zimtohrli_py/core.py), the file and quality utilities                  *)
(* (zimtohrli_py/audio_utils.py), the package bootstrap                    *)
(* (zimtohrli_py/__init__.py), the binary-compatible CLI wrapper           *)
(* (create_zimtohrli_binary_wrapper.py), the build scripts (setup*.py),    *)
(* the scripts that own a temporary directory (debug_install.py,           *)
(* demo_file_comparison.py) and the report-suite scripts                   *)
(* (compare_implementations.py, quick_comparison_test.py,                  *)
(* run_actual_comparison.py, true_direct_comparison.py).                   *)
(*                                                                         *)
(* Numbers: a sample is an integer in which the float32-representable      *)
(* values are the even ones; a distance is an integer number of distance   *)
(* units; a MOS is an integer number of thousandths (5000 is MOS 5.0).     *)
(***************************************************************************)
EXTENDS Integers, Sequences, FiniteSets, TLC

VARIABLES
  nativeHandles,   \* number of native-core instances (Pyohrli) constructed so far
  comparators,     \* the ZimtohrliComparator objects the caller holds: <<[zimtohrli |-> handle]>>
  last,            \* the last API call: its name, its arguments and its outcome
  nativeLog,       \* the calls into the native core made by the last API call, in order
  installed,       \* the optional decoding modules importable in this environment
  namespace,       \* the names bound in the zimtohrli_py package namespace
  imported,        \* "no" before the import, then "ok" or "ImportError"
  decoderLog,      \* the decoder calls made by the last load_and_compare_audio_files
  cli,             \* the last run of the CLI wrapper: arguments, streams, exit status
  build,           \* the run of a build script: variant, manifest files, tools, position
  scratch,         \* the run of a script that owns a temporary directory
  report,          \* the run of a report-suite script: binary outputs, verdicts, exit status
  verify,          \* the run of verify_install: checklist results, exit status
  default_comparator, \* core._default_comparator: <<>> for None, else <<the comparator>>
  probe,           \* the run of find_zimtohrli_binary: candidates, position, outcome
  depcheck,        \* the run of a dependency-check routine: environment, verdict
  generator        \* the process drawing test signals: random state, signal sets

vars == <<nativeHandles, comparators, last, nativeLog, installed, namespace,
          imported, decoderLog, cli, build, scratch, report, verify,
          default_comparator, probe, depcheck, generator>>

\* ------------------------------------------------------------------ bounds
MaxLen == 2          \* longest one-dimensional buffer
MaxHandles == 2      \* native-core instances constructed in one behaviour
MaxComparators == 1  \* comparators the caller holds at once
MaxBatch == 2        \* longest test_audios list
MaxFiles == 2        \* most --path_b arguments of one CLI run

\* --------------------------------------------------------------- helpers
Abs(x) == IF x < 0 THEN 0 - x ELSE x

RECURSIVE Pow3(_)
Pow3(n) == IF n = 0 THEN 1 ELSE 3 * Pow3(n - 1)

RECURSIVE SeqsUpTo(_, _)
\* all sequences over S of length 0..n
SeqsUpTo(S, n) ==
  IF n = 0 THEN {<<>>}
  ELSE LET shorter == SeqsUpTo(S, n - 1)
       IN  shorter \cup {Append(s, x) : s \in {t \in shorter : Len(t) = n - 1}, x \in S}

\* ------------------------------------------------------------ numpy arrays
\* An audio argument: a numpy array (isarray) with a shape, a dtype, a memory
\* layout and its frames (each frame holds one sample per channel), or a
\* plain Python list (isarray = FALSE).
F32Samples == {0, 2, 4}
F64Samples == {0, 1, 2, 3, 4}

Array1D(samples, dtype, contiguous) ==
  [isarray |-> TRUE, shape |-> <<Len(samples)>>, dtype |-> dtype,
   contiguous |-> contiguous,
   data |-> [i \in 1..Len(samples) |-> <<samples[i]>>]]

Array2D(frames, channels, dtype) ==
  [isarray |-> TRUE, shape |-> <<Len(frames), channels>>, dtype |-> dtype,
   contiguous |-> TRUE, data |-> frames]

Array0D(sample) ==
  [isarray |-> TRUE, shape |-> <<>>, dtype |-> "float32", contiguous |-> TRUE,
   data |-> <<<<sample>>>>]

PyList(samples) ==
  [isarray |-> FALSE, shape |-> <<Len(samples)>>, dtype |-> "object",
   contiguous |-> TRUE, data |-> [i \in 1..Len(samples) |-> <<samples[i]>>]]

ndim(a) == Len(a.shape)
len(a) == a.shape[1]
Samples(a) == [i \in 1..Len(a.data) |-> a.data[i][1]]

\* numpy's conversion of a float64 sample to float32: round to nearest, ties
\* to even (the float32 grid is the even integers, so an odd value is a tie)
RoundF32(x) == IF x % 2 = 0 THEN x ELSE IF (x - 1) % 4 = 0 THEN x - 1 ELSE x + 1

astype_float32(a) ==
  [a EXCEPT !.dtype = "float32", !.contiguous = TRUE,
            !.data = [i \in 1..Len(a.data) |->
                        [j \in 1..Len(a.data[i]) |-> RoundF32(a.data[i][j])]]]

ascontiguousarray(a) == [a EXCEPT !.contiguous = TRUE]

\* the argument sets the API calls draw from
Buffers1D ==
     {Array1D(s, "float32", TRUE) : s \in SeqsUpTo(F32Samples, MaxLen)}
  \cup {Array1D(s, "float32", FALSE) : s \in SeqsUpTo(F32Samples, 1)}
  \cup {Array1D(s, "float64", c) : s \in {<<>>, <<1>>, <<3>>}, c \in BOOLEAN}

Audios ==
  Buffers1D \cup {PyList(<<2>>), Array0D(2),
                  Array2D(<<<<2, 4>>>>, 2, "float32"),
                  Array2D(<<>>, 2, "float64")}

SampleRates == {0 - 1, 0, 16000, 48000}

\* ------------------------------------------------------ the native core
\* The extension module zimtohrli_py._zimtohrli is compiled code outside the
\* Python sources; it is modelled from its documented contract: a
\* deterministic distance that is 0 for identical content at equal rates, and
\* a fixed non-increasing distance-to-MOS formula with range [1, 5].
ExpectedSampleRate == 48000
NumRotators == 128

RECURSIVE WeightedDiff(_, _, _)
WeightedDiff(x, y, i) ==
  IF i > Len(x) /\ i > Len(y) THEN 0
  ELSE LET xi == IF i <= Len(x) THEN x[i] ELSE 0
           yi == IF i <= Len(y) THEN y[i] ELSE 0
       IN  Pow3(i - 1) * (Abs(xi - yi) \div 2) + WeightedDiff(x, y, i + 1)

NativeDistance(a, rate_a, b, rate_b) ==
  WeightedDiff(Samples(a), Samples(b), 1) + (IF rate_a = rate_b THEN 0 ELSE 1)

MOSFromZimtohrli(d) ==
  CASE d <= 0 -> 5000
    [] d = 1  -> 4500
    [] d = 2  -> 4499
    [] d = 3  -> 4000
    [] d = 4  -> 3999
    [] d = 5  -> 3000
    [] d = 6  -> 2999
    [] d = 7  -> 2000
    [] d = 8  -> 1999
    [] OTHER  -> 1000

NativeAnalyze(a) == [i \in 1..(Len(a.data) + 1) |-> IF i = 1 THEN NumRotators ELSE a.data[i - 1][1]]

\* one call into the native core, as the log records it
NativeCall(fn, handle, bufs, rates, d) ==
  [fn |-> fn, handle |-> handle, bufs |-> bufs, rates |-> rates, d |-> d]

\* ------------------------------------------------------- Python outcomes
Returned(v) == [kind |-> "return", exc |-> "", value |-> v, values |-> <<>>, label |-> ""]
ReturnedList(vs) == [kind |-> "return", exc |-> "", value |-> 0, values |-> vs, label |-> ""]
ReturnedPair(v, l) == [kind |-> "return", exc |-> "", value |-> v, values |-> <<>>, label |-> l]
Raised(e) == [kind |-> "raise", exc |-> e, value |-> 0, values |-> <<>>, label |-> ""]

\* what one call did: its outcome, the native calls it made, and the number
\* of native-core instances it constructed
Result(outcome, calls, built) == [outcome |-> outcome, calls |-> calls, built |-> built]

\* ---------------------------------------------------------- core.py
\* float(x) of a Python int or float: the same number
float(x) == x

\* zimtohrli_distance_to_mos returning the distance it was given
zimtohrli_distance_to_mos_raw(distance) ==
  Result(Returned(float(distance)),
         <<NativeCall("MOSFromZimtohrli", 0, <<>>, <<>>, float(distance))>>, 0)

zimtohrli_distance_to_mos(distance) ==
  Result(Returned(MOSFromZimtohrli(float(distance))),
         <<NativeCall("MOSFromZimtohrli", 0, <<>>, <<>>, float(distance))>>, 0)

get_expected_sample_rate == 48000

\* compare_audio with the rate test written `< 0': a zero rate gets through
compare_audio_zero_rate(audio_a, sample_rate_a, audio_b, sample_rate_b, return_distance) ==
  IF ~audio_a.isarray \/ ~audio_b.isarray
  THEN Result(Raised("ValueError"), <<>>, 0)
  ELSE IF ndim(audio_a) # 1 \/ ndim(audio_b) # 1
  THEN Result(Raised("ValueError"), <<>>, 0)
  ELSE IF len(audio_a) = 0 \/ len(audio_b) = 0
  THEN Result(Raised("ValueError"), <<>>, 0)
  ELSE
    LET a2 == ascontiguousarray(astype_float32(audio_a))
        b2 == ascontiguousarray(astype_float32(audio_b))
    IN  IF sample_rate_a < 0 \/ sample_rate_b < 0
        THEN Result(Raised("ValueError"), <<>>, 0)
        ELSE IF return_distance
        THEN Result(Returned(NativeDistance(a2, float(sample_rate_a), b2, float(sample_rate_b))),
                    <<NativeCall("compare_audio_arrays_distance", 0, <<a2, b2>>,
                                 <<float(sample_rate_a), float(sample_rate_b)>>, 0)>>, 0)
        ELSE Result(Returned(MOSFromZimtohrli(
                        NativeDistance(a2, float(sample_rate_a), b2, float(sample_rate_b)))),
                    <<NativeCall("compare_audio_arrays", 0, <<a2, b2>>,
                                 <<float(sample_rate_a), float(sample_rate_b)>>, 0)>>, 0)

\* compare_audio handing the expected rate, not sample_rate_b, to the native core
compare_audio_expected_rate(audio_a, sample_rate_a, audio_b, sample_rate_b, return_distance) ==
  IF ~audio_a.isarray \/ ~audio_b.isarray
  THEN Result(Raised("ValueError"), <<>>, 0)
  ELSE IF ndim(audio_a) # 1 \/ ndim(audio_b) # 1
  THEN Result(Raised("ValueError"), <<>>, 0)
  ELSE IF len(audio_a) = 0 \/ len(audio_b) = 0
  THEN Result(Raised("ValueError"), <<>>, 0)
  ELSE
    LET a1 == IF audio_a.dtype # "float32" THEN astype_float32(audio_a) ELSE audio_a
        b1 == IF audio_b.dtype # "float32" THEN astype_float32(audio_b) ELSE audio_b
        a2 == IF ~a1.contiguous THEN ascontiguousarray(a1) ELSE a1
        b2 == IF ~b1.contiguous THEN ascontiguousarray(b1) ELSE b1
    IN  IF sample_rate_a <= 0 \/ sample_rate_b <= 0
        THEN Result(Raised("ValueError"), <<>>, 0)
        ELSE IF return_distance
        THEN Result(Returned(NativeDistance(a2, float(sample_rate_a), b2, float(get_expected_sample_rate))),
                    <<NativeCall("compare_audio_arrays_distance", 0, <<a2, b2>>,
                                 <<float(sample_rate_a), float(get_expected_sample_rate)>>, 0)>>, 0)
        ELSE Result(Returned(MOSFromZimtohrli(
                        NativeDistance(a2, float(sample_rate_a), b2, float(get_expected_sample_rate)))),
                    <<NativeCall("compare_audio_arrays", 0, <<a2, b2>>,
                                 <<float(sample_rate_a), float(get_expected_sample_rate)>>, 0)>>, 0)

compare_audio(audio_a, sample_rate_a, audio_b, sample_rate_b, return_distance) ==
  IF ~audio_a.isarray \/ ~audio_b.isarray
  THEN Result(Raised("ValueError"), <<>>, 0)
  ELSE IF ndim(audio_a) # 1 \/ ndim(audio_b) # 1
  THEN Result(Raised("ValueError"), <<>>, 0)
  ELSE IF len(audio_a) = 0 \/ len(audio_b) = 0
  THEN Result(Raised("ValueError"), <<>>, 0)
  ELSE
    LET a1 == IF audio_a.dtype # "float32" THEN astype_float32(audio_a) ELSE audio_a
        b1 == IF audio_b.dtype # "float32" THEN astype_float32(audio_b) ELSE audio_b
        a2 == IF ~a1.contiguous THEN ascontiguousarray(a1) ELSE a1
        b2 == IF ~b1.contiguous THEN ascontiguousarray(b1) ELSE b1
    IN  IF sample_rate_a <= 0 \/ sample_rate_b <= 0
        THEN Result(Raised("ValueError"), <<>>, 0)
        ELSE IF return_distance
        THEN Result(Returned(NativeDistance(a2, float(sample_rate_a), b2, float(sample_rate_b))),
                    <<NativeCall("compare_audio_arrays_distance", 0, <<a2, b2>>,
                                 <<float(sample_rate_a), float(sample_rate_b)>>, 0)>>, 0)
        ELSE Result(Returned(MOSFromZimtohrli(
                        NativeDistance(a2, float(sample_rate_a), b2, float(sample_rate_b)))),
                    <<NativeCall("compare_audio_arrays", 0, <<a2, b2>>,
                                 <<float(sample_rate_a), float(sample_rate_b)>>, 0)>>, 0)

\* ZimtohrliComparator.__init__: one new native-core instance, numbered `handle'
ZimtohrliComparator(handle) == [zimtohrli |-> handle]

\* ZimtohrliComparator.compare with the two branches of `if return_distance'
\* exchanged
compare_swapped(self, audio_a, audio_b, return_distance) ==
  IF ~audio_a.isarray \/ ~audio_b.isarray
  THEN Result(Raised("ValueError"), <<>>, 0)
  ELSE IF ndim(audio_a) # 1 \/ ndim(audio_b) # 1
  THEN Result(Raised("ValueError"), <<>>, 0)
  ELSE
    LET a2 == ascontiguousarray(astype_float32(audio_a))
        b2 == ascontiguousarray(astype_float32(audio_b))
        distance == NativeDistance(a2, ExpectedSampleRate, b2, ExpectedSampleRate)
        call == NativeCall("Pyohrli.distance", self.zimtohrli, <<a2, b2>>, <<>>, 0)
    IN  IF ~return_distance
        THEN Result(Returned(distance), <<call>>, 0)
        ELSE LET mos == zimtohrli_distance_to_mos(distance)
             IN  Result(mos.outcome, <<call>> \o mos.calls, 0)

\* ZimtohrliComparator.compare
compare(self, audio_a, audio_b, return_distance) ==
  IF ~audio_a.isarray \/ ~audio_b.isarray
  THEN Result(Raised("ValueError"), <<>>, 0)
  ELSE IF ndim(audio_a) # 1 \/ ndim(audio_b) # 1
  THEN Result(Raised("ValueError"), <<>>, 0)
  ELSE
    LET a1 == IF audio_a.dtype # "float32" THEN astype_float32(audio_a) ELSE audio_a
        b1 == IF audio_b.dtype # "float32" THEN astype_float32(audio_b) ELSE audio_b
        a2 == IF ~a1.contiguous THEN ascontiguousarray(a1) ELSE a1
        b2 == IF ~b1.contiguous THEN ascontiguousarray(b1) ELSE b1
        distance == NativeDistance(a2, ExpectedSampleRate, b2, ExpectedSampleRate)
        call == NativeCall("Pyohrli.distance", self.zimtohrli, <<a2, b2>>, <<>>, 0)
    IN  IF return_distance
        THEN Result(Returned(distance), <<call>>, 0)
        ELSE LET mos == zimtohrli_distance_to_mos(distance)
             IN  Result(mos.outcome, <<call>> \o mos.calls, 0)

\* ZimtohrliComparator.analyze
analyze(self, audio) ==
  IF ~audio.isarray
  THEN Result(Raised("ValueError"), <<>>, 0)
  ELSE IF ndim(audio) # 1
  THEN Result(Raised("ValueError"), <<>>, 0)
  ELSE
    LET a1 == IF audio.dtype # "float32" THEN astype_float32(audio) ELSE audio
        a2 == IF ~a1.contiguous THEN ascontiguousarray(a1) ELSE a1
    IN  Result(ReturnedList(NativeAnalyze(a2)),
               <<NativeCall("Pyohrli.analyze", self.zimtohrli, <<a2>>, <<>>, 0)>>, 0)

\* ZimtohrliComparator.sample_rate and .num_rotators
\* the sample_rate property with the body of num_rotators
sample_rate_rotators(self) ==
  Result(Returned(NumRotators),
         <<NativeCall("Pyohrli.num_rotators", self.zimtohrli, <<>>, <<>>, 0)>>, 0)

sample_rate(self) ==
  Result(Returned(ExpectedSampleRate),
         <<NativeCall("Pyohrli.sample_rate", self.zimtohrli, <<>>, <<>>, 0)>>, 0)

num_rotators(self) ==
  Result(Returned(NumRotators),
         <<NativeCall("Pyohrli.num_rotators", self.zimtohrli, <<>>, <<>>, 0)>>, 0)

\* get_default_comparator constructing a comparator on every call
get_default_comparator_fresh(current, handle, constructs) ==
  IF constructs
  THEN [default |-> <<ZimtohrliComparator(handle)>>,
        result |-> Result(Returned(handle),
                          <<NativeCall("Pyohrli", handle, <<>>, <<>>, 0)>>, 1)]
  ELSE [default |-> <<>>, result |-> Result(Raised("RuntimeError"), <<>>, 0)]

\* get_default_comparator with _default_comparator = current (<<>> is None);
\* `handle' numbers the native-core instance a construction would create,
\* `constructs' tells whether ZimtohrliComparator() returns or raises
get_default_comparator(current, handle, constructs) ==
  IF current = <<>>
  THEN IF constructs
       THEN [default |-> <<ZimtohrliComparator(handle)>>,
             result |-> Result(Returned(handle),
                               <<NativeCall("Pyohrli", handle, <<>>, <<>>, 0)>>, 1)]
       ELSE [default |-> <<>>, result |-> Result(Raised("RuntimeError"), <<>>, 0)]
  ELSE [default |-> current, result |-> Result(Returned(current[1].zimtohrli), <<>>, 0)]

\* ------------------------------------------------------- audio_utils.py
\* the label thresholds written with `>' : a MOS on a threshold drops a level
QualityLabelExclusive(mos) ==
  IF mos > 4500 THEN "Excellent"
  ELSE IF mos > 4000 THEN "Good"
  ELSE IF mos > 3000 THEN "Fair"
  ELSE IF mos > 2000 THEN "Poor"
  ELSE "Bad"

QualityLabel(mos) ==
  IF mos >= 4500 THEN "Excellent"
  ELSE IF mos >= 4000 THEN "Good"
  ELSE IF mos >= 3000 THEN "Fair"
  ELSE IF mos >= 2000 THEN "Poor"
  ELSE "Bad"

assess_audio_quality(reference, test_audio, rate) ==
  LET r == compare_audio(reference, rate, test_audio, rate, FALSE)
  IN  IF r.outcome.kind = "raise" THEN r
      ELSE Result(ReturnedPair(r.outcome.value, QualityLabel(r.outcome.value)), r.calls, 0)

\* one element of the list comprehension of batch_compare_audio
BatchElement(useComparator, comparator, reference_audio, test_audio, rate) ==
  IF useComparator
  THEN compare(comparator, reference_audio, test_audio, FALSE)
  ELSE compare_audio(reference_audio, rate, test_audio, rate, FALSE)

RECURSIVE ComprehensionReversed(_, _, _, _, _, _, _, _)
\* the list built by inserting each new element at the front
ComprehensionReversed(useComparator, comparator, reference_audio, test_audios, rate, i, values, calls) ==
  IF i > Len(test_audios) THEN Result(ReturnedList(values), calls, 0)
  ELSE LET r == BatchElement(useComparator, comparator, reference_audio, test_audios[i], rate)
       IN  IF r.outcome.kind = "raise" THEN Result(r.outcome, calls \o r.calls, 0)
           ELSE ComprehensionReversed(useComparator, comparator, reference_audio, test_audios,
                                      rate, i + 1, <<r.outcome.value>> \o values,
                                      calls \o r.calls)

RECURSIVE Comprehension(_, _, _, _, _, _, _, _)
\* [f(test_audio) for test_audio in test_audios]: elements i.. of the list,
\* after `values' were collected and `calls' made; the first raise ends it
Comprehension(useComparator, comparator, reference_audio, test_audios, rate, i, values, calls) ==
  IF i > Len(test_audios) THEN Result(ReturnedList(values), calls, 0)
  ELSE LET r == BatchElement(useComparator, comparator, reference_audio, test_audios[i], rate)
       IN  IF r.outcome.kind = "raise" THEN Result(r.outcome, calls \o r.calls, 0)
           ELSE Comprehension(useComparator, comparator, reference_audio, test_audios, rate,
                              i + 1, Append(values, r.outcome.value), calls \o r.calls)

\* batch_compare_audio without the 48000 Hz branch: every comparison goes
\* through compare_audio
batch_compare_audio_stateless(reference_audio, test_audios, rate, handle) ==
  Comprehension(FALSE, ZimtohrliComparator(0), reference_audio, test_audios, rate, 1,
                <<>>, <<>>)

\* `handle' numbers the native-core instance a comparator built here would wrap
batch_compare_audio(reference_audio, test_audios, rate, handle) ==
  IF rate = 48000
  THEN LET comparator == ZimtohrliComparator(handle)
           r == Comprehension(TRUE, comparator, reference_audio, test_audios, rate, 1, <<>>,
                              <<NativeCall("Pyohrli", handle, <<>>, <<>>, 0)>>)
       IN  Result(r.outcome, r.calls, 1)
  ELSE Comprehension(FALSE, ZimtohrliComparator(0), reference_audio, test_audios, rate, 1,
                     <<>>, <<>>)

\* ---- audio files and the two decoders
\* A file on disk: missing, or holding frames of `channels' samples each.
AudioFile(exists, frames, channels, samplerate) ==
  [exists |-> exists, frames |-> frames, channels |-> channels, samplerate |-> samplerate]

RECURSIVE SumSeq(_, _)
SumSeq(s, i) == IF i > Len(s) THEN 0 ELSE s[i] + SumSeq(s, i + 1)

\* what a decoder call gives: an exception name, or the array and the rate
Decoded(exc, audio, sr) == [exc |-> exc, audio |-> audio, sr |-> sr]

\* librosa.load(path, sr=None): a float32 buffer, channels averaged to mono
librosa_load(file, fault) ==
  IF fault # "" THEN Decoded(fault, Array0D(0), 0)
  ELSE IF ~file.exists THEN Decoded("FileNotFoundError", Array0D(0), 0)
  ELSE Decoded("",
         Array1D([i \in 1..Len(file.frames) |->
                    RoundF32(SumSeq(file.frames[i], 1) \div file.channels)],
                 "float32", TRUE),
         file.samplerate)

\* soundfile.read(path): a float64 array, one-dimensional for a mono file and
\* (frames, channels) otherwise
sf_read(file, fault) ==
  IF fault # "" THEN Decoded(fault, Array0D(0), 0)
  ELSE IF ~file.exists THEN Decoded("LibsndfileError", Array0D(0), 0)
  ELSE IF file.channels = 1
  THEN Decoded("", Array1D([i \in 1..Len(file.frames) |-> file.frames[i][1]], "float64", TRUE),
               file.samplerate)
  ELSE Decoded("", Array2D(file.frames, file.channels, "float64"), file.samplerate)

\* what load_and_compare_audio_files did: the Result of its comparison and
\* the decoder calls it made
Loaded(outcome, calls, decoded) ==
  [outcome |-> outcome, calls |-> calls, built |-> 0, decoded |-> decoded]

IsImportError(outcome) == outcome.kind = "raise" /\ outcome.exc = "ImportError"

\* the body of one `try' of load_and_compare_audio_files: import the decoder,
\* decode both files, compare
LoadWith(decoder, modules, fault, file_a, file_b, return_distance) ==
  IF decoder \notin modules THEN Loaded(Raised("ImportError"), <<>>, <<>>)
  ELSE
    LET da == IF decoder = "librosa" THEN librosa_load(file_a, fault) ELSE sf_read(file_a, fault)
        db == IF decoder = "librosa" THEN librosa_load(file_b, "") ELSE sf_read(file_b, "")
    IN  IF da.exc # "" THEN Loaded(Raised(da.exc), <<>>, <<<<decoder, "a">>>>)
        ELSE IF db.exc # "" THEN Loaded(Raised(db.exc), <<>>, <<<<decoder, "a">>, <<decoder, "b">>>>)
        ELSE LET r == compare_audio(da.audio, float(da.sr), db.audio, float(db.sr), return_distance)
             IN  Loaded(r.outcome, r.calls, <<<<decoder, "a">>, <<decoder, "b">>>>)

NoDecoderError == "ImportError: requires either librosa or soundfile"

load_and_compare_audio_files(file_a, file_b, return_distance, modules, librosaFault, soundfileFault) ==
  LET first == LoadWith("librosa", modules, librosaFault, file_a, file_b, return_distance)
  IN  IF ~IsImportError(first.outcome) THEN first
      ELSE LET second == LoadWith("soundfile", modules, soundfileFault, file_a, file_b,
                                  return_distance)
           IN  IF ~IsImportError(second.outcome)
               THEN Loaded(second.outcome, first.calls \o second.calls,
                           first.decoded \o second.decoded)
               ELSE Loaded(Raised(NoDecoderError), first.calls \o second.calls,
                           first.decoded \o second.decoded)

\* ------------------------------------------------------- __init__.py
CoreNames == {"compare_audio", "zimtohrli_distance_to_mos", "get_expected_sample_rate",
              "ZimtohrliComparator"}
UtilNames == {"load_and_compare_audio_files", "assess_audio_quality", "batch_compare_audio"}
MetaNames == {"__version__", "__author__", "__license__", "__all__"}
AllList == CoreNames \cup UtilNames

\* the modules each module of the package imports when it is executed
ModuleImports(m) ==
  CASE m = "core" -> {"numpy", "typing", "_zimtohrli"}
    [] m = "audio_utils" -> {"typing", "core"}
    [] OTHER -> {}

RECURSIVE Importable(_, _)
\* importing module m succeeds: it is there and all its imports succeed
Importable(m, modules) ==
  /\ m \in modules \cup {"numpy", "typing", "core", "audio_utils"}
  /\ \A d \in ModuleImports(m) : Importable(d, modules)

\* the namespace of zimtohrli_py after `import zimtohrli_py', or the failure
PackageImport(modules) ==
  IF ~Importable("core", modules)
  THEN [status |-> "ImportError", names |-> {}]
  ELSE [status |-> "ok",
        names |-> CoreNames \cup MetaNames
                  \cup (IF Importable("audio_utils", modules) THEN UtilNames ELSE {})]

\* ------------------------------------ create_zimtohrli_binary_wrapper.py
\* the channel reduction left out: the array is passed on as it was read
FirstChannelKept(a) == a

\* audio[:, 0]: the first channel of a (frames, channels) array, a strided view
FirstChannel(a) ==
  [a EXCEPT !.shape = <<a.shape[1]>>, !.contiguous = (a.shape[2] = 1),
            !.data = [i \in 1..Len(a.data) |-> <<a.data[i][1]>>]]

\* one line written to standard error: the message and the index of the file
\* it is about (0 is --path_a, k is the k-th --path_b)
ErrLine(msg, index) == [msg |-> msg, index |-> index]

\* the observable record of a run, while it runs (exit = -1) and at its end
Run(stdout, stderr, exit, loads, compares) ==
  [stdout |-> stdout, stderr |-> stderr, exit |-> exit, loads |-> loads, compares |-> compares]

RECURSIVE MainLoopSkipping(_, _, _, _, _, _, _)
\* the loop with `continue' in place of sys.exit(1): a failing comparison
\* file is reported and the next one is processed
MainLoopSkipping(audio_a, sr_a, path_b, output_zimtohrli_distance, verbose, k, run) ==
  IF k > Len(path_b) THEN [run EXCEPT !.exit = IF run.exit = 1 THEN 1 ELSE 0]
  ELSE
    LET rb == sf_read(path_b[k], "")
        loads1 == Append(run.loads, k)
    IN  IF rb.exc # ""
        THEN MainLoopSkipping(audio_a, sr_a, path_b, output_zimtohrli_distance, verbose, k + 1,
                 Run(run.stdout, Append(run.stderr, ErrLine("Error loading", k)), 1,
                     loads1, run.compares))
        ELSE
          LET stderr1 == IF verbose THEN Append(run.stderr, ErrLine("Loaded", k))
                         ELSE run.stderr
              a1 == IF Len(audio_a.shape) > 1 THEN FirstChannel(audio_a) ELSE audio_a
              b1 == IF Len(rb.audio.shape) > 1 THEN FirstChannel(rb.audio) ELSE rb.audio
              r == compare_audio(a1, sr_a, b1, rb.sr, output_zimtohrli_distance)
              compares1 == Append(run.compares,
                                  [a |-> a1, sr_a |-> sr_a, b |-> b1, sr_b |-> rb.sr,
                                   return_distance |-> output_zimtohrli_distance,
                                   native |-> r.calls])
          IN  IF r.outcome.kind = "raise"
              THEN MainLoopSkipping(a1, sr_a, path_b, output_zimtohrli_distance, verbose, k + 1,
                       Run(run.stdout, Append(stderr1, ErrLine("Error comparing", k)), 1,
                           loads1, compares1))
              ELSE MainLoopSkipping(a1, sr_a, path_b, output_zimtohrli_distance, verbose, k + 1,
                            Run(Append(run.stdout, r.outcome.value), stderr1, run.exit,
                                loads1, compares1))

RECURSIVE MainLoop(_, _, _, _, _, _, _)
\* the `for path_b in args.path_b' loop from its k-th iteration on
MainLoop(audio_a, sr_a, path_b, output_zimtohrli_distance, verbose, k, run) ==
  IF k > Len(path_b) THEN [run EXCEPT !.exit = 0]
  ELSE
    LET rb == sf_read(path_b[k], "")
        loads1 == Append(run.loads, k)
    IN  IF rb.exc # ""
        THEN Run(run.stdout, Append(run.stderr, ErrLine("Error loading", k)), 1,
                 loads1, run.compares)
        ELSE
          LET stderr1 == IF verbose THEN Append(run.stderr, ErrLine("Loaded", k))
                         ELSE run.stderr
              a1 == IF Len(audio_a.shape) > 1 THEN FirstChannel(audio_a) ELSE audio_a
              b1 == IF Len(rb.audio.shape) > 1 THEN FirstChannel(rb.audio) ELSE rb.audio
              r == compare_audio(a1, sr_a, b1, rb.sr, output_zimtohrli_distance)
              compares1 == Append(run.compares,
                                  [a |-> a1, sr_a |-> sr_a, b |-> b1, sr_b |-> rb.sr,
                                   return_distance |-> output_zimtohrli_distance,
                                   native |-> r.calls])
          IN  IF r.outcome.kind = "raise"
              THEN Run(run.stdout, Append(stderr1, ErrLine("Error comparing", k)), 1,
                       loads1, compares1)
              ELSE MainLoop(a1, sr_a, path_b, output_zimtohrli_distance, verbose, k + 1,
                            Run(Append(run.stdout, r.outcome.value), stderr1, 0 - 1,
                                loads1, compares1))

\* main() with the verbose diagnostics of the reference file printed to
\* standard output (a print without file=sys.stderr)
main_verbose_stdout(path_a, path_b, output_zimtohrli_distance, verbose, modules) ==
  IF ~Importable("core", modules)
  THEN Run(<<>>, <<ErrLine("Error: zimtohrli_py not found", 0)>>, 1, <<>>, <<>>)
  ELSE IF "soundfile" \notin modules
  THEN Run(<<>>, <<ErrLine("Error: soundfile not found", 0)>>, 1, <<>>, <<>>)
  ELSE
    LET ra == sf_read(path_a, "")
    IN  IF ra.exc # ""
        THEN Run(<<>>, <<ErrLine("Error loading", 0)>>, 1, <<0>>, <<>>)
        ELSE MainLoop(ra.audio, ra.sr, path_b, output_zimtohrli_distance, verbose, 1,
                      Run(IF verbose THEN <<Len(ra.audio.data)>> ELSE <<>>, <<>>,
                          0 - 1, <<0>>, <<>>))

\* the script from its imports to the end of main()
main(path_a, path_b, output_zimtohrli_distance, verbose, modules) ==
  IF ~Importable("core", modules)
  THEN Run(<<>>, <<ErrLine("Error: zimtohrli_py not found", 0)>>, 1, <<>>, <<>>)
  ELSE IF "soundfile" \notin modules
  THEN Run(<<>>, <<ErrLine("Error: soundfile not found", 0)>>, 1, <<>>, <<>>)
  ELSE
    LET ra == sf_read(path_a, "")
    IN  IF ra.exc # ""
        THEN Run(<<>>, <<ErrLine("Error loading", 0)>>, 1, <<0>>, <<>>)
        ELSE MainLoop(ra.audio, ra.sr, path_b, output_zimtohrli_distance, verbose, 1,
                      Run(<<>>, IF verbose THEN <<ErrLine("Loaded", 0)>> ELSE <<>>,
                          0 - 1, <<0>>, <<>>))

\* ------------------------------------------------------- the build scripts
\* setup.py ("default"), setup_clean.py ("clean"), setup_minimal.py
\* ("minimal") and setup_system_deps.py ("system").  The three manifest
\* files of zimtohrli_py/src are "original" (CMakeLists.txt), "alternate"
\* (CMakeLists_clean.txt, CMakeLists_simple.txt or CMakeLists_offline.txt)
\* and "backup" (CMakeLists.txt.backup); each is "absent" or holds the
\* content "original", "alternate" or "stale".
Variants == {"default", "clean", "minimal", "system"}

ManifestFiles(original, alternate, backup) ==
  [original |-> original, alternate |-> alternate, backup |-> backup]

path_exists(fs, f) == fs[f] # "absent"

\* Path.rename on POSIX: the target is replaced
path_rename(fs, src, dst) ==
  IF src = dst THEN fs ELSE [fs EXCEPT ![dst] = fs[src], ![src] = "absent"]

path_unlink(fs, f) == [fs EXCEPT ![f] = "absent"]

\* the timeout= argument of the two tool invocations, in seconds; 0 is None
ConfigureTimeout(variant) ==
  CASE variant = "default" -> 0
    [] variant = "clean" -> 60
    [] variant = "minimal" -> 300
    [] variant = "system" -> 120

BuildTimeout(variant) ==
  CASE variant = "default" -> 0
    [] variant = "clean" -> 180
    [] variant = "minimal" -> 600
    [] variant = "system" -> 300

\* use_clean_build: ZIMTOHRLI_FULL_BUILD is read by setup.py alone
use_clean_build(b) == IF b.variant = "default" THEN ~b.full_build ELSE TRUE

\* the exit status of an external tool that returns
ReturnCode(tool) == IF tool = "ok" THEN 0 ELSE 1

StepFailedNever(returncode) == FALSE

\* check_call, and "if result.returncode != 0: raise CalledProcessError"
StepFailed(returncode) == returncode # 0

\* the finally block of the build
Restored(b) ==
  IF b.variant = "minimal"
  THEN IF path_exists(b.fs, "backup")
       THEN path_rename(path_unlink(b.fs, "original"), "backup", "original")
       ELSE b.fs
  ELSE LET fs1 == IF use_clean_build(b) /\ path_exists(b.fs, "alternate")
                  THEN path_rename(path_unlink(b.fs, "original"), "alternate", "alternate")
                  ELSE b.fs
       IN  IF b.backup_made /\ path_exists(fs1, "backup")
           THEN path_rename(fs1, "backup", "original")
           ELSE fs1

\* a build run: the script, its environment (flag, manifest files, how the
\* two tool invocations behave, which rename of the swap the file system
\* refuses: 0 for none), and the position of the run
BuildRun(variant, full_build, fs, configure, build_tool, fault, pc) ==
  [variant |-> variant, full_build |-> full_build, found |-> fs, fs |-> fs,
   tools |-> [configure |-> configure, build |-> build_tool], fault |-> fault,
   pc |-> pc, began |-> FALSE, backup_made |-> FALSE, invoked |-> <<>>,
   returned |-> <<>>, timeout |-> 0, exc |-> "", outcome |-> ""]

NoBuild == BuildRun("default", FALSE, ManifestFiles("absent", "absent", "absent"),
                    "ok", "ok", 0, "idle")

\* ------------------------------------- scripts owning a temporary directory
\* debug_install.test_minimal_cmake (cmake_test), demo_file_comparison.main
\* and run_actual_comparison.run_comparison (tempfile.mkdtemp)
ScratchScripts == {"debug_install", "demo_file_comparison", "run_actual_comparison"}

\* whether the files are written inside the try block whose finally removes
\* the directory
WritesInsideTry(script) == script = "run_actual_comparison"

\* a run: the script, the step that raises ("none", "write", "tool",
\* "compare"), how the external tool behaves, and the position of the run
ScratchRun(script, fault, tool, pc) ==
  [script |-> script, fault |-> fault, tool |-> tool, pc |-> pc,
   dir_exists |-> FALSE, written |-> FALSE, exc |-> "", outcome |-> ""]

\* the try block of test_minimal_cmake: every exception is caught
test_minimal_cmake_try(s) ==
  IF s.fault = "tool" THEN "False"
  ELSE IF s.tool = "hang" THEN "False"
  ELSE IF ReturnCode(s.tool) = 0 THEN "True" ELSE "False"

\* the try block of a comparison script: an exception leaves through finally
comparison_try(s) == IF s.fault = "compare" THEN "Exception" ELSE ""

NoScratch == ScratchRun("", "none", "ok", "idle")

\* ------------------------------------------------- the report-suite scripts
\* compare_implementations.py, quick_comparison_test.py,
\* run_actual_comparison.py and true_direct_comparison.py run the reference
\* binary on each case of a catalogue and compare its value with the
\* binding's.  The standard output of the binary is a sequence of lines; a
\* line holds a number, some other text, or white space only.
ReportScripts == {"compare_implementations", "quick_comparison_test",
                  "run_actual_comparison", "true_direct_comparison"}

Number(n) == [kind |-> "number", value |-> n]
Text == [kind |-> "text", value |-> 0]
Blank == [kind |-> "blank", value |-> 0]

\* what one invocation of the binary (or of a binding call) gives the script
Value(v) == [ok |-> TRUE, value |-> v]
Failure == [ok |-> FALSE, value |-> 0]

\* str.strip() on the whole output: leading and trailing white space goes
RECURSIVE lstrip(_)
lstrip(lines) ==
  IF lines # <<>> /\ Head(lines).kind = "blank" THEN lstrip(Tail(lines)) ELSE lines

RECURSIVE rstrip(_)
rstrip(lines) ==
  IF lines # <<>> /\ lines[Len(lines)].kind = "blank"
  THEN rstrip(SubSeq(lines, 1, Len(lines) - 1))
  ELSE lines

strip(lines) == rstrip(lstrip(lines))

\* str.split('\n'): the empty string gives one empty line
split(lines) == IF lines = <<>> THEN <<Blank>> ELSE lines

\* float(line.strip()): a value, or ValueError
ParseFloat(line) == IF line.kind = "number" THEN Value(line.value) ELSE Failure

\* the for loop of run_binary_comparison: the first line that parses, break
RECURSIVE FirstParsed(_)
FirstParsed(output_lines) ==
  IF output_lines = <<>> THEN Failure
  ELSE IF ParseFloat(Head(output_lines)).ok THEN ParseFloat(Head(output_lines))
  ELSE FirstParsed(Tail(output_lines))

\* compare_implementations.ZimtohrliComparison.run_binary_comparison
run_binary_comparison(result) ==
  IF result.returncode # 0 THEN Failure
  ELSE FirstParsed(split(strip(result.stdout)))

\* quick_comparison_test.run_binary_zimtohrli: float(output.split('\n')[-1])
run_binary_zimtohrli(result) ==
  IF result.returncode # 0 THEN Failure
  ELSE LET output == split(strip(result.stdout))
       IN  ParseFloat(output[Len(output)])

\* true_direct_comparison.run_original_binary: float(result.stdout.strip())
run_original_binary(result) ==
  IF result.returncode # 0 THEN Failure
  ELSE LET output == strip(result.stdout)
       IN  IF Len(output) = 1 THEN ParseFloat(output[1]) ELSE Failure

\* run_actual_comparison.run_wrapper_binary, one of its two invocations
run_wrapper_binary(result) ==
  IF result.returncode # 0 THEN Failure
  ELSE LET output == strip(result.stdout)
       IN  IF Len(output) = 1 THEN ParseFloat(output[1]) ELSE Failure

RunBinary(script, result) ==
  CASE script = "compare_implementations" -> run_binary_comparison(result)
    [] script = "quick_comparison_test" -> run_binary_zimtohrli(result)
    [] script = "run_actual_comparison" -> run_wrapper_binary(result)
    [] script = "true_direct_comparison" -> run_original_binary(result)

\* the verdict of one case: an error of either implementation, or the
\* comparison of the values (the tolerances are below one distance unit)
CaseVerdict(binary, python) ==
  IF ~python.ok \/ \E i \in 1..Len(binary) : ~binary[i].ok THEN "error"
  ELSE IF \A i \in 1..Len(binary) : binary[i].value = python.value THEN "match"
  ELSE "mismatch"

Count(verdicts, v) == Cardinality({ i \in 1..Len(verdicts) : verdicts[i] = v })

\* what the script concludes: match_rate == 1.0 and success_rate == 1.0,
\* all_match, successful_tests == total_tests, overall_success; errored
\* cases are skipped by the two counting loops of true_direct_comparison,
\* whose summary line divides by the number of compared cases
Compared(verdicts) == Len(verdicts) - Count(verdicts, "error")

SummaryAborts(script, verdicts, mos_verdicts) ==
  script = "true_direct_comparison" /\ (Compared(verdicts) = 0 \/ Compared(mos_verdicts) = 0)

OverallSuccess(script, verdicts, mos_verdicts) ==
  IF script = "true_direct_comparison"
  THEN /\ ~SummaryAborts(script, verdicts, mos_verdicts)
       /\ Count(verdicts, "match") = Compared(verdicts)
       /\ Count(mos_verdicts, "match") = Compared(mos_verdicts)
  ELSE Count(verdicts, "match") = Len(verdicts)

\* the exit status of the process after the summary
ExitStatus(script, verdicts, mos_verdicts) ==
  CASE script \in {"compare_implementations", "quick_comparison_test"} ->
         IF OverallSuccess(script, verdicts, mos_verdicts) THEN 0 ELSE 1
    [] script = "run_actual_comparison" -> 0
    [] script = "true_direct_comparison" ->
         IF SummaryAborts(script, verdicts, mos_verdicts) THEN 1 ELSE 0

\* actual_vs_expected_comparison.run_comparison_test: the catalogue gives each
\* case a distance range and a MOS range; the first case compares a signal
\* with itself
test_cases(k) ==
  IF k = 1 THEN [distance |-> <<0, 0>>, mos |-> <<5000, 5000>>]
  ELSE [distance |-> <<1, 2>>, mos |-> <<4500, 5000>>]

\* distance_match and mos_match of one case
RangeVerdict(k, actual_distance, actual_mos) ==
  LET case == test_cases(k)
      distance_match == case.distance[1] <= actual_distance /\ actual_distance <= case.distance[2]
      mos_match == case.mos[1] <= actual_mos /\ actual_mos <= case.mos[2]
  IN  IF distance_match /\ mos_match THEN "match" ELSE "mismatch"

NoInvocation == [made |-> FALSE, returncode |-> 0, stdout |-> <<>>, result |-> Failure]

\* a run: the script, whether the reference binary is there, the length of
\* the catalogue, and the position of the run
ReportRun(script, available, n, pc) ==
  [script |-> script, available |-> available, n |-> n, pc |-> pc,
   table |-> "distance", k |-> 1, invocation |-> NoInvocation, binary |-> <<>>,
   verdicts |-> <<>>, mos_verdicts |-> <<>>, printed |-> FALSE, saved |-> FALSE,
   success |-> FALSE, exit |-> 0 - 1]

NoReport == ReportRun("", FALSE, 0, "idle")

\* ------------------------------------------------------- verify_install.py
\* hasattr(zimtohrli_py, name) on the imported package
hasattr(pkg, name) == name \in pkg.names

\* the signals the checks build themselves
SineAudio == Array1D(<<2, 4>>, "float32", TRUE)
ShortAudio == Array1D(<<2>>, "float32", TRUE)
ZeroAudio == Array1D(<<0, 0>>, "float32", TRUE)

test_basic_import(pkg) == pkg.status = "ok"

test_core_functions(pkg) ==
  IF pkg.status # "ok" THEN FALSE
  ELSE hasattr(pkg, "compare_audio") /\ hasattr(pkg, "compare_audio_distance")

test_self_comparison(pkg) ==
  IF pkg.status # "ok" \/ ~hasattr(pkg, "compare_audio") THEN FALSE
  ELSE LET score == compare_audio(SineAudio, 48000, SineAudio, 48000, FALSE).outcome
       IN  IF score.kind = "raise" THEN FALSE
           ELSE 4800 <= score.value /\ score.value <= 5000

test_different_sample_rates(pkg, audio2) ==
  IF pkg.status # "ok" \/ ~hasattr(pkg, "compare_audio") THEN FALSE
  ELSE LET score == compare_audio(SineAudio, 44100, audio2, 16000, FALSE).outcome
       IN  IF score.kind = "raise" THEN FALSE ELSE score.value > 4000

\* zimtohrli_py.compare_audio_distance raises AttributeError when the
\* package has no such name
test_distance_function(pkg, audio2) ==
  IF pkg.status # "ok" \/ ~hasattr(pkg, "compare_audio") THEN FALSE
  ELSE LET mos_score == compare_audio(SineAudio, 48000, audio2, 48000, FALSE).outcome
           distance == compare_audio(SineAudio, 48000, audio2, 48000, TRUE).outcome
       IN  IF mos_score.kind = "raise" THEN FALSE
           ELSE IF ~hasattr(pkg, "compare_audio_distance") THEN FALSE
           ELSE mos_score.value > 0 /\ distance.value >= 0

test_edge_cases(pkg) ==
  IF pkg.status # "ok" \/ ~hasattr(pkg, "compare_audio") THEN FALSE
  ELSE /\ compare_audio(ShortAudio, 48000, ShortAudio, 48000, FALSE).outcome.kind = "return"
       /\ compare_audio(ZeroAudio, 48000, ZeroAudio, 48000, FALSE).outcome.kind = "return"

\* tests[k](), in the order of main's list
TotalTests == 6

RunTestOf(k, pkg, v) ==
  CASE k = 1 -> test_basic_import(pkg)
    [] k = 2 -> test_core_functions(pkg)
    [] k = 3 -> test_self_comparison(pkg)
    [] k = 4 -> test_different_sample_rates(pkg, v.resampled)
    [] k = 5 -> test_distance_function(pkg, v.noisy)
    [] k = 6 -> test_edge_cases(pkg)

Passed(results) == Cardinality({ i \in 1..Len(results) : results[i] })

\* a run: the 16 kHz signal and the noisy signal the checks compare with
\* the sine, and the position of the run
VerifyRun(resampled, noisy, pc) ==
  [resampled |-> resampled, noisy |-> noisy, pc |-> pc, k |-> 1, results |-> <<>>,
   exit |-> 0 - 1]

NoVerify == VerifyRun(SineAudio, SineAudio, "idle")

\* --------------------------- compare_implementations.find_zimtohrli_binary
\* the length of possible_paths
NumPaths == 6

\* how `path --version' behaves for a candidate path: it exits with status
\* 0, exits with another status, the path does not exist, the path exists
\* but cannot be executed (a directory, a file without execute permission),
\* or the invocation outlives the 5 s timeout
Candidates == {"ok", "nonzero", "missing", "unexecutable", "timeout"}

\* what subprocess.run raises for a candidate; "" is a normal return
RunRaises(candidate) ==
  CASE candidate = "missing" -> "FileNotFoundError"
    [] candidate = "unexecutable" -> "PermissionError"
    [] candidate = "timeout" -> "TimeoutExpired"
    [] OTHER -> ""

\* one iteration of the for loop: the path is returned, the loop goes on,
\* or the exception leaves the loop
ProbePath(candidate) ==
  IF RunRaises(candidate) = ""
  THEN IF ReturnCode(candidate) = 0 THEN "return" ELSE "continue"
  ELSE IF RunRaises(candidate) \in {"CalledProcessError", "FileNotFoundError", "TimeoutExpired"}
       THEN "continue"
       ELSE "raise"

\* ZimtohrliComparison(binary_path) in main: the --binary-path argument ("" is
\* None), the behaviour of the six candidates, and the position of the run;
\* binary is 0 while unset, an index of possible_paths, or NumPaths + 1 for
\* the given path
ProbeRun(binary_path, candidates, pc) ==
  [binary_path |-> binary_path, candidates |-> candidates, pc |-> pc, k |-> 0,
   binary |-> 0, exc |-> "", exit |-> 0 - 1]

NoProbe == ProbeRun("", <<>>, "idle")

\* ------------------------------------------- the dependency-check routines
\* check_dependencies (setup.py), check_clean_dependencies,
\* check_minimal_dependencies, check_system_dependencies
ToolList(variant) ==
  IF variant \in {"default", "clean"}
  THEN <<"cmake", "pkg-config", "gcc", "g++">>
  ELSE <<"cmake", "pkg-config">>

LibList == <<"flac", "soxr">>

\* what `tool --version' raises with check=True: nothing for a working
\* tool, CalledProcessError for one exiting non-zero, FileNotFoundError for
\* one that is not installed
ToolCheckRaises(tool) ==
  CASE tool = "ok" -> ""
    [] tool = "fail" -> "CalledProcessError"
    [] tool = "missing" -> "FileNotFoundError"

\* what `pkg-config --exists lib' raises with check=True
LibQueryRaises(tools, libs, lib) ==
  IF tools["pkg-config"] = "missing" THEN "FileNotFoundError"
  ELSE IF tools["pkg-config"] = "ok" /\ libs[lib] THEN ""
  ELSE "CalledProcessError"

\* the except clauses of the two loops
ToolCaught(variant) ==
  IF variant \in {"default", "minimal"}
  THEN {"CalledProcessError", "FileNotFoundError"}
  ELSE {"CalledProcessError", "FileNotFoundError", "TimeoutExpired"}

LibCaught(variant) ==
  IF variant = "default"
  THEN {"CalledProcessError", "FileNotFoundError"}
  ELSE {"CalledProcessError"}

\* check_system_dependencies returns False at the first missing item, the
\* others collect the missing items and decide after the loops
ReturnsAtFirstMissing(variant) == variant = "system"

\* a run of a variant's routine: the installed tools and libraries, and the
\* position of the run; result is "" until the routine returns
DepCheck(variant, tools, libs, pc) ==
  [variant |-> variant, tools |-> tools, libs |-> libs, pc |-> pc, k |-> 1,
   missing_tools |-> <<>>, missing_libs |-> <<>>, result |-> "", exc |-> ""]

NoDepCheck ==
  DepCheck("default", [t \in {"cmake", "pkg-config", "gcc", "g++"} |-> "ok"],
           [l \in {"flac", "soxr"} |-> TRUE], "idle")

\* ------------------------------------------------- the test-signal generators
\* numpy's random generators: a generator is its state, a draw returns the
\* array drawn (one number stands for it) and advances the state
RngStates == 16

seed(s) == s % RngStates

Advance(state) == (state * 5 + 3) % RngStates

\* np.random.normal(...) on the generator in `state'
normal(state) == [value |-> Advance(state), state |-> Advance(state)]

\* np.random.RandomState(s).normal(...): a generator of its own
RandomState(s) == seed(s)

GeneratorScripts == {"compare_implementations", "demo_comparison_results"}

SignalSet(white_noise, pink_noise, sine_1000hz_noisy) ==
  [white_noise |-> white_noise, pink_noise |-> pink_noise,
   sine_1000hz_noisy |-> sine_1000hz_noisy]

\* compare_implementations: the three noise signals are drawn from the
\* global generator, in the order of the list
compare_generate_test_audio(global) ==
  LET white == normal(global)
      pink == normal(white.state)
      noisy == normal(pink.state)
  IN  [signals |-> SignalSet(white.value, pink.value, noisy.value), global |-> noisy.state]

\* demo_comparison_results: white noise and the noisy sine from generators
\* of their own, pink noise from the global generator after
\* np.random.seed(random_state)
demo_generate_test_audio(global) ==
  LET white == normal(RandomState(42))
      pink == normal(seed(42))
      noisy == normal(RandomState(123))
  IN  [signals |-> SignalSet(white.value, pink.value, noisy.value), global |-> pink.state]

generate_test_audio(script, global) ==
  IF script = "compare_implementations"
  THEN compare_generate_test_audio(global)
  ELSE demo_generate_test_audio(global)

NoSignals == SignalSet(0, 0, 0)

\* a process using a script's generator: the global generator's state, the
\* number of invocations made, the state the latest invocation found and
\* left, the signal sets of the first and of the latest invocation, and the
\* number of draws made by the rest of the process
GeneratorRun(script, global, pc) ==
  [script |-> script, global |-> global, pc |-> pc, calls |-> 0, drawn |-> 0,
   entered |-> global, left |-> global, first |-> NoSignals, latest |-> NoSignals]

NoGenerator == GeneratorRun("", 0, "idle")

\* ------------------------------------------------------------ input sets
Distances == 0..10

AudioFiles ==
  { AudioFile(FALSE, <<>>, 1, 48000),
    AudioFile(TRUE, <<>>, 1, 48000),
    AudioFile(TRUE, <<<<2>>>>, 1, 48000),
    AudioFile(TRUE, <<<<1>>, <<4>>>>, 1, 16000),
    AudioFile(TRUE, <<<<2, 4>>>>, 2, 48000) }

Faults == {"", "ImportError", "RuntimeError"}
AllModules == {"librosa", "soundfile", "_zimtohrli"}

NoArgs == [bufs |-> <<>>, rates |-> <<>>, return_distance |-> FALSE, d |-> 0,
           comparator |-> 0, files |-> <<>>, faults |-> <<>>]
NoOutcome == [kind |-> "none", exc |-> "", value |-> 0, values |-> <<>>, label |-> ""]
NoRun == [path_a |-> AudioFile(FALSE, <<>>, 1, 48000), path_b |-> <<>>,
          output_zimtohrli_distance |-> FALSE, verbose |-> FALSE,
          run |-> Run(<<>>, <<>>, 0 - 1, <<>>, <<>>)]

Call(op, args, outcome) == [op |-> op, args |-> args, outcome |-> outcome]

\* -------------------------------------------------------------- states
Pending(op, args) == Call(op, args, NoOutcome)
IsPending(op) == last.op = op /\ last.outcome.kind = "none"

BatchInputs ==
  {Array1D(s, "float32", TRUE) : s \in SeqsUpTo(F32Samples, 1)}
  \cup {Array1D([i \in 1..MaxLen |-> 4], "float32", TRUE),
        PyList(<<2>>), Array1D(<<3>>, "float64", FALSE)}

\* the calls of the stateless API a caller can make
CompareAudioCalls ==
  {Pending("compare_audio",
           [NoArgs EXCEPT !.bufs = <<a, b>>, !.rates = <<ra, rb>>, !.return_distance = rd]) :
     a \in Audios, b \in Audios, ra \in SampleRates, rb \in SampleRates, rd \in BOOLEAN}

DistanceToMosCalls ==
  {Pending("zimtohrli_distance_to_mos", [NoArgs EXCEPT !.d = d]) : d \in Distances}

AssessCalls ==
  {Pending("assess_audio_quality", [NoArgs EXCEPT !.bufs = <<a, b>>, !.rates = <<r>>]) :
     a \in Audios, b \in Audios, r \in SampleRates}

BatchCalls ==
  {Pending("batch_compare_audio", [NoArgs EXCEPT !.bufs = <<a>> \o t, !.rates = <<r>>]) :
     a \in BatchInputs, t \in SeqsUpTo(BatchInputs, MaxBatch), r \in SampleRates}

\* The package is imported in an environment that has every module, and the
\* caller is about to make one call of the stateless API.
Init ==
  /\ nativeHandles = 0
  /\ comparators = <<>>
  /\ last \in CompareAudioCalls \cup DistanceToMosCalls \cup AssessCalls \cup BatchCalls
  /\ nativeLog = <<>>
  /\ installed = AllModules
  /\ namespace = PackageImport(AllModules).names
  /\ imported = "ok"
  /\ decoderLog = <<>>
  /\ cli = NoRun
  /\ build = NoBuild /\ scratch = NoScratch /\ report = NoReport
  /\ verify = NoVerify /\ default_comparator = <<>> /\ probe = NoProbe
  /\ depcheck = NoDepCheck /\ generator = NoGenerator

\* The package is imported; the caller holds no comparator yet.
InitCmp ==
  /\ nativeHandles = 0
  /\ comparators = <<>>
  /\ last = Call("", NoArgs, NoOutcome)
  /\ nativeLog = <<>>
  /\ installed = AllModules
  /\ namespace = PackageImport(AllModules).names
  /\ imported = "ok"
  /\ decoderLog = <<>>
  /\ cli = NoRun
  /\ build = NoBuild /\ scratch = NoScratch /\ report = NoReport
  /\ verify = NoVerify /\ default_comparator = <<>> /\ probe = NoProbe
  /\ depcheck = NoDepCheck /\ generator = NoGenerator

\* A fresh interpreter in any environment, nothing imported yet.
InitPkg ==
  /\ nativeHandles = 0
  /\ comparators = <<>>
  /\ last = Call("", NoArgs, NoOutcome)
  /\ nativeLog = <<>>
  /\ installed \in SUBSET AllModules
  /\ namespace = {}
  /\ imported = "no"
  /\ decoderLog = <<>>
  /\ cli = NoRun
  /\ build = NoBuild /\ scratch = NoScratch /\ report = NoReport
  /\ verify = NoVerify /\ default_comparator = <<>> /\ probe = NoProbe
  /\ depcheck = NoDepCheck /\ generator = NoGenerator

\* an API call returns or raises: its outcome, its native calls, the
\* native-core instances it built
Finish(r) ==
  /\ last' = [last EXCEPT !.outcome = r.outcome]
  /\ nativeLog' = r.calls
  /\ nativeHandles' = nativeHandles + r.built
  /\ UNCHANGED <<comparators, installed, namespace, imported, decoderLog, cli, build, scratch, report,
                 verify, default_comparator, probe, depcheck, generator>>

CompareAudio ==
  /\ IsPending("compare_audio") /\ "compare_audio" \in namespace
  /\ Finish(compare_audio(last.args.bufs[1], last.args.rates[1],
                          last.args.bufs[2], last.args.rates[2], last.args.return_distance))

DistanceToMos ==
  /\ IsPending("zimtohrli_distance_to_mos") /\ "zimtohrli_distance_to_mos" \in namespace
  /\ Finish(zimtohrli_distance_to_mos(last.args.d))

AssessAudioQuality ==
  /\ IsPending("assess_audio_quality") /\ "assess_audio_quality" \in namespace
  /\ Finish(assess_audio_quality(last.args.bufs[1], last.args.bufs[2], last.args.rates[1]))

BatchCompareAudio ==
  /\ IsPending("batch_compare_audio") /\ "batch_compare_audio" \in namespace
  /\ Finish(batch_compare_audio(last.args.bufs[1], Tail(last.args.bufs), last.args.rates[1],
                                nativeHandles + 1))

Next ==
  \/ CompareAudio
  \/ DistanceToMos
  \/ AssessAudioQuality
  \/ BatchCompareAudio

Spec == Init /\ [][Next]_vars

\* ---- a caller holding comparators, calling them any number of times
CmpAudios ==
  { Array1D(<<>>, "float32", TRUE), Array1D(<<2>>, "float32", TRUE),
    Array1D(<<4>>, "float32", FALSE), Array1D(<<3>>, "float64", TRUE),
    PyList(<<2>>), Array0D(2), Array2D(<<<<2, 4>>>>, 2, "float32") }
  \cup {Array1D(s, "float32", TRUE) : s \in {t \in SeqsUpTo({0, 4}, MaxLen) : Len(t) = MaxLen}}

Called(op, args, r) ==
  /\ last' = Call(op, args, r.outcome)
  /\ nativeLog' = r.calls
  /\ UNCHANGED <<nativeHandles, comparators, installed, namespace, imported, decoderLog, cli, build, scratch, report,
                 verify, default_comparator, probe, depcheck, generator>>

NewComparator ==
  /\ "ZimtohrliComparator" \in namespace
  /\ nativeHandles < MaxHandles
  /\ Len(comparators) < MaxComparators
  /\ comparators' = Append(comparators, ZimtohrliComparator(nativeHandles + 1))
  /\ nativeHandles' = nativeHandles + 1
  /\ last' = Call("ZimtohrliComparator", [NoArgs EXCEPT !.comparator = Len(comparators) + 1],
                  Returned(0))
  /\ nativeLog' = <<NativeCall("Pyohrli", nativeHandles + 1, <<>>, <<>>, 0)>>
  /\ UNCHANGED <<installed, namespace, imported, decoderLog, cli, build, scratch, report,
                 verify, default_comparator, probe, depcheck, generator>>

ComparatorCompare ==
  \E c \in 1..Len(comparators), a \in CmpAudios, b \in CmpAudios, rd \in BOOLEAN :
    Called("ZimtohrliComparator.compare",
           [NoArgs EXCEPT !.bufs = <<a, b>>, !.return_distance = rd, !.comparator = c],
           compare(comparators[c], a, b, rd))

ComparatorAnalyze ==
  \E c \in 1..Len(comparators), a \in CmpAudios :
    Called("ZimtohrliComparator.analyze",
           [NoArgs EXCEPT !.bufs = <<a>>, !.comparator = c],
           analyze(comparators[c], a))

ComparatorSampleRate ==
  \E c \in 1..Len(comparators) :
    Called("ZimtohrliComparator.sample_rate", [NoArgs EXCEPT !.comparator = c],
           sample_rate(comparators[c]))

ComparatorNumRotators ==
  \E c \in 1..Len(comparators) :
    Called("ZimtohrliComparator.num_rotators", [NoArgs EXCEPT !.comparator = c],
           num_rotators(comparators[c]))

NextCmp ==
  \/ NewComparator
  \/ ComparatorCompare
  \/ ComparatorAnalyze
  \/ ComparatorSampleRate
  \/ ComparatorNumRotators

SpecCmp == InitCmp /\ [][NextCmp]_vars

\* ---- the package in any environment
ImportPackage ==
  /\ imported = "no"
  /\ imported' = PackageImport(installed).status
  /\ namespace' = PackageImport(installed).names
  /\ last' = Call("import zimtohrli_py", NoArgs,
                  IF PackageImport(installed).status = "ok" THEN Returned(0)
                  ELSE Raised("ImportError"))
  /\ UNCHANGED <<nativeHandles, comparators, nativeLog, installed, decoderLog, cli, build, scratch, report,
                 verify, default_comparator, probe, depcheck, generator>>

LoadAndCompareAudioFiles ==
  \E file_a \in AudioFiles, file_b \in AudioFiles, rd \in BOOLEAN,
     librosaFault \in Faults, soundfileFault \in Faults :
    /\ imported = "ok" /\ "load_and_compare_audio_files" \in namespace
    /\ LET r == load_and_compare_audio_files(file_a, file_b, rd, installed,
                                             librosaFault, soundfileFault)
       IN  /\ last' = Call("load_and_compare_audio_files",
                           [NoArgs EXCEPT !.files = <<file_a, file_b>>, !.return_distance = rd,
                                          !.faults = <<librosaFault, soundfileFault>>],
                           r.outcome)
           /\ nativeLog' = r.calls
           /\ decoderLog' = r.decoded
    /\ UNCHANGED <<nativeHandles, comparators, installed, namespace, imported, cli, build, scratch, report,
                 verify, default_comparator, probe, depcheck, generator>>

NextPkg ==
  \/ ImportPackage
  \/ LoadAndCompareAudioFiles

SpecPkg == InitPkg /\ [][NextPkg]_vars

\* ---- the CLI wrapper: a shell in any environment runs the script once
RunWrapper ==
  \E path_a \in AudioFiles, path_b \in SeqsUpTo(AudioFiles, MaxFiles),
     output_zimtohrli_distance \in BOOLEAN, verbose \in BOOLEAN :
    /\ cli = NoRun
    /\ Len(path_b) >= 1
    /\ cli' = [path_a |-> path_a, path_b |-> path_b,
               output_zimtohrli_distance |-> output_zimtohrli_distance,
               verbose |-> verbose,
               run |-> main(path_a, path_b, output_zimtohrli_distance, verbose, installed)]
    /\ UNCHANGED <<nativeHandles, comparators, last, nativeLog, installed, namespace,
                   imported, decoderLog, build, scratch, report,
                 verify, default_comparator, probe, depcheck, generator>>

NextCli == RunWrapper

SpecCli == InitPkg /\ [][NextCli]_vars

\* ---- a build script run once, in any state of the manifest files
Tools == {"ok", "fail", "hang"}

InitBuild ==
  /\ nativeHandles = 0
  /\ comparators = <<>>
  /\ last = Call("", NoArgs, NoOutcome)
  /\ nativeLog = <<>>
  /\ installed = AllModules
  /\ namespace = {}
  /\ imported = "no"
  /\ decoderLog = <<>>
  /\ cli = NoRun
  /\ build \in { BuildRun(variant, full_build, ManifestFiles(original, alternate, backup),
                          configure, build_tool, fault, "start") :
                   variant \in Variants, full_build \in BOOLEAN,
                   original \in {"original", "absent"},
                   alternate \in {"alternate", "absent"},
                   backup \in {"stale", "absent"},
                   configure \in Tools, build_tool \in Tools, fault \in 0..2 }
  /\ scratch = NoScratch /\ report = NoReport
  /\ verify = NoVerify /\ default_comparator = <<>> /\ probe = NoProbe
  /\ depcheck = NoDepCheck /\ generator = NoGenerator

BuildStep(b) ==
  /\ build' = b
  /\ UNCHANGED <<nativeHandles, comparators, last, nativeLog, installed, namespace,
                 imported, decoderLog, cli, scratch, report,
                 verify, default_comparator, probe, depcheck, generator>>

\* the first rename of the swap, before the try block
SwapBackup ==
  /\ build.pc = "start"
  /\ BuildStep(
       IF ~(use_clean_build(build) /\ path_exists(build.fs, "alternate"))
       THEN [build EXCEPT !.pc = "try"]
       ELSE IF build.variant # "minimal" /\ ~path_exists(build.fs, "original")
       THEN [build EXCEPT !.pc = "swap", !.began = TRUE]
       ELSE IF build.fault = 1 \/ ~path_exists(build.fs, "original")
       THEN [build EXCEPT !.pc = "done", !.began = TRUE, !.outcome = "OSError"]
       ELSE [build EXCEPT !.pc = "swap", !.began = TRUE,
                          !.fs = path_rename(@, "original", "backup"),
                          !.backup_made = (build.variant # "minimal")])

\* the second rename of the swap, before the try block
SwapManifest ==
  /\ build.pc = "swap"
  /\ BuildStep(
       IF build.fault = 2
       THEN [build EXCEPT !.pc = "done", !.outcome = "OSError"]
       ELSE [build EXCEPT !.pc = "try", !.fs = path_rename(@, "alternate", "original")])

Configure ==
  /\ build.pc = "try"
  /\ BuildStep([build EXCEPT !.pc = "configuring", !.invoked = Append(@, "configure"),
                             !.timeout = ConfigureTimeout(build.variant)])

\* the step returns, or its timeout expires; without a timeout the script
\* waits for as long as the tool runs
StepEnds(step, next) ==
  IF build.tools[step] = "hang"
  THEN /\ build.timeout > 0
       /\ BuildStep([build EXCEPT !.pc = "finally", !.exc = "TimeoutExpired"])
  ELSE LET returncode == ReturnCode(build.tools[step])
           returned == Append(build.returned, [step |-> step, returncode |-> returncode])
       IN  IF StepFailed(returncode)
           THEN BuildStep([build EXCEPT !.pc = "finally", !.returned = returned,
                                        !.exc = "CalledProcessError"])
           ELSE BuildStep([build EXCEPT !.pc = next, !.returned = returned])

ConfigureEnds == build.pc = "configuring" /\ StepEnds("configure", "build")

Build ==
  /\ build.pc = "build"
  /\ BuildStep([build EXCEPT !.pc = "building", !.invoked = Append(@, "build"),
                             !.timeout = BuildTimeout(build.variant)])

BuildEnds == build.pc = "building" /\ StepEnds("build", "finally")

\* the finally block, then the return or the re-raised exception
Restore ==
  /\ build.pc = "finally"
  /\ BuildStep([build EXCEPT !.pc = "done", !.fs = Restored(build),
                             !.outcome = IF build.exc = "" THEN "success" ELSE build.exc])

NextBuild ==
  \/ SwapBackup
  \/ SwapManifest
  \/ Configure
  \/ ConfigureEnds
  \/ Build
  \/ BuildEnds
  \/ Restore

SpecBuild == InitBuild /\ [][NextBuild]_vars

\* ---- a script that owns a temporary directory, run once
InitScratch ==
  /\ nativeHandles = 0
  /\ comparators = <<>>
  /\ last = Call("", NoArgs, NoOutcome)
  /\ nativeLog = <<>>
  /\ installed = AllModules
  /\ namespace = {}
  /\ imported = "no"
  /\ decoderLog = <<>>
  /\ cli = NoRun
  /\ build = NoBuild
  /\ scratch \in { ScratchRun(script, fault, tool, "start") :
                     script \in ScratchScripts,
                     fault \in {"none", "write", "tool", "compare"}, tool \in Tools }
  /\ report = NoReport
  /\ verify = NoVerify /\ default_comparator = <<>> /\ probe = NoProbe
  /\ depcheck = NoDepCheck /\ generator = NoGenerator

ScratchStep(s) ==
  /\ scratch' = s
  /\ UNCHANGED <<nativeHandles, comparators, last, nativeLog, installed, namespace,
                 imported, decoderLog, cli, build, report,
                 verify, default_comparator, probe, depcheck, generator>>

\* test_dir.mkdir(exist_ok=True), tempfile.mkdtemp
MakeDir ==
  /\ scratch.pc = "start"
  /\ ScratchStep([scratch EXCEPT !.pc = "write", !.dir_exists = TRUE])

\* write_text of the manifest, sf.write of the audio files
WriteFiles ==
  /\ scratch.pc = "write"
  /\ ScratchStep(
       IF scratch.fault = "write"
       THEN IF WritesInsideTry(scratch.script)
            THEN [scratch EXCEPT !.pc = "finally", !.exc = "OSError"]
            ELSE [scratch EXCEPT !.pc = "done", !.outcome = "OSError"]
       ELSE [scratch EXCEPT !.pc = "try", !.written = TRUE])

TryBody ==
  /\ scratch.pc = "try"
  /\ ScratchStep(
       IF scratch.script = "debug_install"
       THEN [scratch EXCEPT !.pc = "finally", !.outcome = test_minimal_cmake_try(scratch)]
       ELSE [scratch EXCEPT !.pc = "finally", !.exc = comparison_try(scratch)])

\* finally: shutil.rmtree
Cleanup ==
  /\ scratch.pc = "finally"
  /\ ScratchStep([scratch EXCEPT !.pc = "done", !.dir_exists = FALSE,
                                 !.outcome = IF scratch.exc # "" THEN scratch.exc
                                             ELSE IF @ = "" THEN "success" ELSE @])

NextScratch ==
  \/ MakeDir
  \/ WriteFiles
  \/ TryBody
  \/ Cleanup

SpecScratch == InitScratch /\ [][NextScratch]_vars

\* ---- a report-suite script run once
MaxLines == 2        \* most lines of one output of the binary
MaxCases == 2        \* longest catalogue

Lines == {Number(1), Number(2), Text, Blank}

BinaryResults ==
  { [returncode |-> 0, stdout |-> stdout] : stdout \in SeqsUpTo(Lines, MaxLines) }
  \cup { [returncode |-> 1, stdout |-> <<>>], [returncode |-> 1, stdout |-> <<Number(1)>>] }

PythonResults == {Value(1), Value(2), Failure}

InitReport ==
  /\ nativeHandles = 0
  /\ comparators = <<>>
  /\ last = Call("", NoArgs, NoOutcome)
  /\ nativeLog = <<>>
  /\ installed = AllModules
  /\ namespace = {}
  /\ imported = "no"
  /\ decoderLog = <<>>
  /\ cli = NoRun
  /\ build = NoBuild /\ scratch = NoScratch
  /\ report \in { ReportRun(script, available, n, "start") :
                    script \in ReportScripts, available \in BOOLEAN, n \in 1..MaxCases }
                \cup { ReportRun("actual_vs_expected_comparison", TRUE, n, "validate") :
                         n \in 1..MaxCases }
  /\ verify = NoVerify /\ default_comparator = <<>> /\ probe = NoProbe
  /\ depcheck = NoDepCheck /\ generator = NoGenerator

ReportStep(r) ==
  /\ report' = r
  /\ UNCHANGED <<nativeHandles, comparators, last, nativeLog, installed, namespace,
                 imported, decoderLog, cli, build, scratch,
                 verify, default_comparator, probe, depcheck, generator>>

\* the reference binary (or wrapper script) is looked for; sys.exit(1)
\* when it is not there
CheckReference ==
  /\ report.pc = "start"
  /\ ReportStep(IF report.available
                THEN [report EXCEPT !.pc = "binary"]
                ELSE [report EXCEPT !.pc = "done", !.exit = 1])

\* subprocess.run of the binary on the files of case k, and the parsing of
\* its output; run_wrapper_binary invokes it a second time for the MOS when
\* the first invocation gave a value
InvokeBinary ==
  /\ report.pc = "binary"
  /\ \E result \in BinaryResults :
       LET value == RunBinary(report.script, result)
           binary == Append(report.binary, value)
       IN  ReportStep([report EXCEPT
             !.invocation = [made |-> TRUE, returncode |-> result.returncode,
                             stdout |-> result.stdout, result |-> value],
             !.binary = binary,
             !.pc = IF report.script = "run_actual_comparison" /\ Len(binary) = 1 /\ value.ok
                    THEN "binary" ELSE "judge"])

\* the loop left at the first case that does not match
JudgeCaseStopping ==
  /\ report.pc = "judge"
  /\ \E python \in PythonResults :
       LET verdict == CaseVerdict(report.binary, python)
           judged == IF report.table = "distance"
                     THEN [report EXCEPT !.verdicts = Append(@, verdict), !.binary = <<>>]
                     ELSE [report EXCEPT !.mos_verdicts = Append(@, verdict), !.binary = <<>>]
       IN  ReportStep(
             IF report.k < report.n /\ verdict = "match"
             THEN [judged EXCEPT !.k = @ + 1, !.pc = "binary"]
             ELSE IF report.script = "true_direct_comparison" /\ report.table = "distance"
             THEN [judged EXCEPT !.table = "mos", !.k = 1, !.pc = "binary"]
             ELSE [judged EXCEPT !.pc = "summary"])

\* the binding's value for case k, the comparison, and the loop step
JudgeCase ==
  /\ report.pc = "judge"
  /\ \E python \in PythonResults :
       LET verdict == CaseVerdict(report.binary, python)
           judged == IF report.table = "distance"
                     THEN [report EXCEPT !.verdicts = Append(@, verdict), !.binary = <<>>]
                     ELSE [report EXCEPT !.mos_verdicts = Append(@, verdict), !.binary = <<>>]
       IN  ReportStep(
             IF report.k < report.n
             THEN [judged EXCEPT !.k = @ + 1, !.pc = "binary"]
             ELSE IF report.script = "true_direct_comparison" /\ report.table = "distance"
             THEN [judged EXCEPT !.table = "mos", !.k = 1, !.pc = "binary"]
             ELSE [judged EXCEPT !.pc = "summary"])

\* the summary: its counts and rates are computed and printed; the process
\* ends, except in compare_implementations, which then writes its report
Summarize ==
  /\ report.pc = "summary"
  /\ LET aborts == SummaryAborts(report.script, report.verdicts, report.mos_verdicts)
         summed == [report EXCEPT
                      !.printed = ~aborts,
                      !.success = OverallSuccess(report.script, report.verdicts,
                                                 report.mos_verdicts)]
     IN  ReportStep(
           IF report.script = "compare_implementations"
           THEN [summed EXCEPT !.pc = "save"]
           ELSE [summed EXCEPT !.pc = "done",
                               !.exit = ExitStatus(report.script, report.verdicts,
                                                   report.mos_verdicts)])

\* save_detailed_report, then sys.exit; an exception of the writing is
\* caught by main, which exits with status 1
SaveReport ==
  /\ report.pc = "save"
  /\ \E writable \in BOOLEAN :
       ReportStep([report EXCEPT
         !.pc = "done", !.saved = writable,
         !.exit = IF writable
                  THEN ExitStatus(report.script, report.verdicts, report.mos_verdicts)
                  ELSE 1])

\* one iteration of the loop of run_comparison_test: the binding's distance
\* and MOS for case k, checked against the ranges of the case
ActualDistances == 0..2

ValidateCase ==
  /\ report.pc = "validate"
  /\ \E actual_distance \in ActualDistances :
       LET overall_match == RangeVerdict(report.k, actual_distance,
                                         MOSFromZimtohrli(actual_distance))
           judged == [report EXCEPT !.verdicts = Append(@, overall_match),
                                    !.invocation.result = Value(actual_distance)]
       IN  ReportStep(IF report.k < report.n
                      THEN [judged EXCEPT !.k = @ + 1]
                      ELSE [judged EXCEPT !.pc = "validated"])

\* main of actual_vs_expected_comparison: the pattern verdict is all_match;
\* the three consistency tests pass or not; sys.exit(0 if success else 1)
ValidationSummary ==
  /\ report.pc = "validated"
  /\ \E consistent \in BOOLEAN :
       LET all_match == Count(report.verdicts, "match") = Len(report.verdicts)
       IN  ReportStep([report EXCEPT !.pc = "done", !.printed = TRUE, !.success = all_match,
                                     !.exit = IF all_match /\ consistent THEN 0 ELSE 1])

NextReport ==
  \/ CheckReference
  \/ InvokeBinary
  \/ JudgeCase
  \/ Summarize
  \/ SaveReport
  \/ ValidateCase
  \/ ValidationSummary

SpecReport == InitReport /\ [][NextReport]_vars

\* ---- verify_install run once, in any environment
VerifySignals == {SineAudio, ShortAudio, Array1D(<<4, 4>>, "float32", TRUE)}

InitVerify ==
  /\ nativeHandles = 0
  /\ comparators = <<>>
  /\ last = Call("", NoArgs, NoOutcome)
  /\ nativeLog = <<>>
  /\ installed \in SUBSET AllModules
  /\ namespace = {}
  /\ imported = "no"
  /\ decoderLog = <<>>
  /\ cli = NoRun
  /\ build = NoBuild /\ scratch = NoScratch /\ report = NoReport
  /\ verify \in { VerifyRun(resampled, noisy, "tests") :
                    resampled \in VerifySignals, noisy \in VerifySignals }
  /\ default_comparator = <<>> /\ probe = NoProbe
  /\ depcheck = NoDepCheck /\ generator = NoGenerator

\* one iteration of main's loop: the check imports the package and runs
RunTest ==
  /\ verify.pc = "tests"
  /\ LET pkg == PackageImport(installed)
         result == RunTestOf(verify.k, pkg, verify)
     IN  /\ verify' = [verify EXCEPT !.results = Append(@, result),
                                     !.k = @ + 1,
                                     !.pc = IF verify.k < TotalTests THEN "tests" ELSE "summary"]
         /\ imported' = pkg.status
         /\ namespace' = pkg.names
  /\ UNCHANGED <<nativeHandles, comparators, last, nativeLog, installed, decoderLog, cli,
                 build, scratch, report, default_comparator, probe, depcheck, generator>>

\* the results line, main's return value and sys.exit
VerifyExit ==
  /\ verify.pc = "summary"
  /\ verify' = [verify EXCEPT !.pc = "done",
                              !.exit = IF Passed(verify.results) = TotalTests THEN 0 ELSE 1]
  /\ UNCHANGED <<nativeHandles, comparators, last, nativeLog, installed, namespace, imported,
                 decoderLog, cli, build, scratch, report, default_comparator, probe,
                 depcheck, generator>>

NextVerify ==
  \/ RunTest
  \/ VerifyExit

SpecVerify == InitVerify /\ [][NextVerify]_vars

\* ---- the default comparator of an imported core module
InitDefault ==
  /\ nativeHandles = 0
  /\ comparators = <<>>
  /\ last = Call("", NoArgs, NoOutcome)
  /\ nativeLog = <<>>
  /\ installed = AllModules
  /\ namespace = PackageImport(AllModules).names
  /\ imported = "ok"
  /\ decoderLog = <<>>
  /\ cli = NoRun
  /\ build = NoBuild /\ scratch = NoScratch /\ report = NoReport
  /\ verify = NoVerify /\ default_comparator = <<>> /\ probe = NoProbe
  /\ depcheck = NoDepCheck /\ generator = NoGenerator

GetDefaultComparator ==
  /\ nativeHandles < MaxHandles
  /\ \E constructs \in BOOLEAN :
       LET r == get_default_comparator(default_comparator, nativeHandles + 1, constructs)
       IN  /\ default_comparator' = r.default
           /\ nativeHandles' = nativeHandles + r.result.built
           /\ last' = Call("get_default_comparator", NoArgs, r.result.outcome)
           /\ nativeLog' = r.result.calls
  /\ UNCHANGED <<comparators, installed, namespace, imported, decoderLog, cli, build,
                 scratch, report, verify, probe, depcheck, generator>>

\* a comparison through the instance get_default_comparator returned
DefaultCompare ==
  /\ default_comparator # <<>>
  /\ \E a \in CmpAudios, b \in CmpAudios, rd \in BOOLEAN :
       Called("ZimtohrliComparator.compare",
              [NoArgs EXCEPT !.bufs = <<a, b>>, !.return_distance = rd,
                             !.comparator = default_comparator[1].zimtohrli],
              compare(default_comparator[1], a, b, rd))

NextDefault ==
  \/ GetDefaultComparator
  \/ DefaultCompare

SpecDefault == InitDefault /\ [][NextDefault]_vars

\* ---- locating the reference binary
InitProbe ==
  /\ nativeHandles = 0
  /\ comparators = <<>>
  /\ last = Call("", NoArgs, NoOutcome)
  /\ nativeLog = <<>>
  /\ installed = AllModules
  /\ namespace = {}
  /\ imported = "no"
  /\ decoderLog = <<>>
  /\ cli = NoRun
  /\ build = NoBuild /\ scratch = NoScratch /\ report = NoReport
  /\ verify = NoVerify /\ default_comparator = <<>>
  /\ probe \in { ProbeRun(binary_path, candidates, "init") :
                   binary_path \in {"", "given"},
                   candidates \in [1..NumPaths -> Candidates] }
  /\ depcheck = NoDepCheck /\ generator = NoGenerator

ProbeStep(p) ==
  /\ probe' = p
  /\ UNCHANGED <<nativeHandles, comparators, last, nativeLog, installed, namespace,
                 imported, decoderLog, cli, build, scratch, report, verify,
                 default_comparator, depcheck, generator>>

\* self.binary_path = binary_path or self.find_zimtohrli_binary()
ComparisonInit ==
  /\ probe.pc = "init"
  /\ ProbeStep(IF probe.binary_path # ""
               THEN [probe EXCEPT !.pc = "done", !.binary = NumPaths + 1]
               ELSE [probe EXCEPT !.pc = "probing", !.k = 1])

\* one iteration of the loop over possible_paths; an exception the loop does
\* not catch reaches main's `except Exception', which exits with status 1
ProbeCandidate ==
  /\ probe.pc = "probing"
  /\ LET step == ProbePath(probe.candidates[probe.k])
     IN  ProbeStep(
           IF step = "return"
           THEN [probe EXCEPT !.pc = "done", !.binary = probe.k]
           ELSE IF step = "raise"
           THEN [probe EXCEPT !.pc = "done", !.exit = 1,
                              !.exc = RunRaises(probe.candidates[probe.k])]
           ELSE IF probe.k < NumPaths
           THEN [probe EXCEPT !.k = @ + 1]
           ELSE [probe EXCEPT !.pc = "notfound"])

\* the messages after the loop and sys.exit(1)
BinaryNotFound ==
  /\ probe.pc = "notfound"
  /\ ProbeStep([probe EXCEPT !.pc = "done", !.exit = 1, !.exc = "SystemExit"])

NextProbe ==
  \/ ComparisonInit
  \/ ProbeCandidate
  \/ BinaryNotFound

SpecProbe == InitProbe /\ [][NextProbe]_vars

\* ---- a dependency check in any environment
InitDepCheck ==
  /\ nativeHandles = 0
  /\ comparators = <<>>
  /\ last = Call("", NoArgs, NoOutcome)
  /\ nativeLog = <<>>
  /\ installed = AllModules
  /\ namespace = {}
  /\ imported = "no"
  /\ decoderLog = <<>>
  /\ cli = NoRun
  /\ build = NoBuild /\ scratch = NoScratch /\ report = NoReport
  /\ verify = NoVerify /\ default_comparator = <<>> /\ probe = NoProbe
  /\ depcheck \in { DepCheck(variant, tools, libs, "tools") :
                      variant \in Variants,
                      tools \in [{"cmake", "pkg-config", "gcc", "g++"} -> {"ok", "fail", "missing"}],
                      libs \in [{"flac", "soxr"} -> BOOLEAN] }
  /\ generator = NoGenerator

DepStep(d) ==
  /\ depcheck' = d
  /\ UNCHANGED <<nativeHandles, comparators, last, nativeLog, installed, namespace,
                 imported, decoderLog, cli, build, scratch, report, verify,
                 default_comparator, probe, generator>>

\* one iteration of the loop over the tools
CheckTool ==
  /\ depcheck.pc = "tools"
  /\ LET tool == ToolList(depcheck.variant)[depcheck.k]
         e == ToolCheckRaises(depcheck.tools[tool])
         noted == IF e = "" THEN depcheck
                  ELSE [depcheck EXCEPT !.missing_tools = Append(@, tool)]
     IN  DepStep(
           IF e # "" /\ e \notin ToolCaught(depcheck.variant)
           THEN [depcheck EXCEPT !.pc = "done", !.exc = e]
           ELSE IF e # "" /\ ReturnsAtFirstMissing(depcheck.variant)
           THEN [noted EXCEPT !.pc = "done", !.result = "False"]
           ELSE IF depcheck.k < Len(ToolList(depcheck.variant))
           THEN [noted EXCEPT !.k = @ + 1]
           ELSE [noted EXCEPT !.pc = "libs", !.k = 1])

\* one iteration of the loop over the libraries
CheckLib ==
  /\ depcheck.pc = "libs"
  /\ LET lib == LibList[depcheck.k]
         e == LibQueryRaises(depcheck.tools, depcheck.libs, lib)
         noted == IF e = "" THEN depcheck
                  ELSE [depcheck EXCEPT !.missing_libs = Append(@, lib)]
     IN  DepStep(
           IF e # "" /\ e \notin LibCaught(depcheck.variant)
           THEN [depcheck EXCEPT !.pc = "done", !.exc = e]
           ELSE IF e # "" /\ ReturnsAtFirstMissing(depcheck.variant)
           THEN [noted EXCEPT !.pc = "done", !.result = "False"]
           ELSE IF depcheck.k < Len(LibList)
           THEN [noted EXCEPT !.k = @ + 1]
           ELSE [noted EXCEPT !.pc = "verdict"])

\* `if missing_tools or missing_libs: ... return False', else return True
DepVerdict ==
  /\ depcheck.pc = "verdict"
  /\ DepStep([depcheck EXCEPT !.pc = "done",
                !.result = IF depcheck.missing_tools # <<>> \/ depcheck.missing_libs # <<>>
                           THEN "False" ELSE "True"])

NextDepCheck ==
  \/ CheckTool
  \/ CheckLib
  \/ DepVerdict

SpecDepCheck == InitDepCheck /\ [][NextDepCheck]_vars

\* ---- a process invoking a signal-set generator twice
MaxDraws == 2

InitGenerator ==
  /\ nativeHandles = 0
  /\ comparators = <<>>
  /\ last = Call("", NoArgs, NoOutcome)
  /\ nativeLog = <<>>
  /\ installed = AllModules
  /\ namespace = {}
  /\ imported = "no"
  /\ decoderLog = <<>>
  /\ cli = NoRun
  /\ build = NoBuild /\ scratch = NoScratch /\ report = NoReport
  /\ verify = NoVerify /\ default_comparator = <<>> /\ probe = NoProbe
  /\ depcheck = NoDepCheck
  /\ generator \in { GeneratorRun(script, global, "run") :
                       script \in GeneratorScripts, global \in 0..(RngStates - 1) }

GeneratorStep(g) ==
  /\ generator' = g
  /\ UNCHANGED <<nativeHandles, comparators, last, nativeLog, installed, namespace,
                 imported, decoderLog, cli, build, scratch, report, verify,
                 default_comparator, probe, depcheck>>

GenerateTestAudio ==
  /\ generator.pc = "run"
  /\ generator.calls < 2
  /\ LET r == generate_test_audio(generator.script, generator.global)
     IN  GeneratorStep([generator EXCEPT !.calls = @ + 1,
                          !.entered = generator.global,
                          !.left = r.global,
                          !.global = r.global,
                          !.first = IF generator.calls = 0 THEN r.signals ELSE @,
                          !.latest = r.signals])

\* the rest of the process draws from the global generator
DrawElsewhere ==
  /\ generator.pc = "run"
  /\ generator.drawn < MaxDraws
  /\ GeneratorStep([generator EXCEPT !.drawn = @ + 1,
                                     !.global = normal(generator.global).state])

NextGenerator ==
  \/ GenerateTestAudio
  \/ DrawElsewhere

SpecGenerator == InitGenerator /\ [][NextGenerator]_vars

\* ================================================================ claims
Done(op) == last.op = op /\ last.outcome.kind # "none"
ValidBuffer(a) == a.isarray /\ ndim(a) = 1 /\ len(a) > 0

\* C1: compare_audio raises ValueError, and makes no call into the native
\* core, whenever either audio argument is not an array, is not
\* one-dimensional or is empty, or either sample rate is not strictly
\* positive (zero included).
C1_InvalidInputRejected ==
  ( /\ Done("compare_audio")
    /\ \/ ~ValidBuffer(last.args.bufs[1])
       \/ ~ValidBuffer(last.args.bufs[2])
       \/ last.args.rates[1] <= 0
       \/ last.args.rates[2] <= 0 )
  => /\ last.outcome.kind = "raise"
     /\ last.outcome.exc = "ValueError"
     /\ nativeLog = <<>>

\* a compare_audio call on two valid buffers whose second rate is zero was
\* rejected
C1_Witness ==
  /\ Done("compare_audio")
  /\ ValidBuffer(last.args.bufs[1]) /\ ValidBuffer(last.args.bufs[2])
  /\ last.args.rates = <<48000, 0>>
  /\ last.outcome.exc = "ValueError"
  /\ nativeLog = <<>>

\* C2: every buffer ZimtohrliComparator.compare or .analyze passes to the
\* native core is one-dimensional and of length > 0; a non-array,
\* multi-dimensional or zero-length input is rejected with ValueError before
\* any native-core call.
C2_ComparatorBuffersValid ==
  last.op \in {"ZimtohrliComparator.compare", "ZimtohrliComparator.analyze"}
  => /\ \A i \in 1..Len(nativeLog) : \A j \in 1..Len(nativeLog[i].bufs) :
          ValidBuffer(nativeLog[i].bufs[j])
     /\ (\E j \in 1..Len(last.args.bufs) : ~ValidBuffer(last.args.bufs[j]))
        => /\ last.outcome.kind = "raise"
           /\ last.outcome.exc = "ValueError"
           /\ nativeLog = <<>>

\* C3: on one comparator and one pair of valid buffers, a compare call with
\* return_distance=True followed by the same call with return_distance=False
\* returns, the second time, zimtohrli_distance_to_mos of the first value.
C3_MosIsConvertedDistance ==
  [][ ( /\ last.op = "ZimtohrliComparator.compare"
        /\ last.outcome.kind = "return"
        /\ last.args.return_distance
        /\ last'.op = "ZimtohrliComparator.compare"
        /\ last'.outcome.kind = "return"
        /\ ~last'.args.return_distance
        /\ last'.args.bufs = last.args.bufs )
      => last'.outcome.value
           = zimtohrli_distance_to_mos(last.outcome.value).outcome.value ]_vars

\* a compare call on two valid, different buffers returned a MOS strictly
\* between the ends of the scale
C3_Witness ==
  /\ last.op = "ZimtohrliComparator.compare"
  /\ last.outcome.kind = "return"
  /\ ~last.args.return_distance
  /\ ValidBuffer(last.args.bufs[1]) /\ ValidBuffer(last.args.bufs[2])
  /\ last.outcome.value > 1000 /\ last.outcome.value < 5000

\* C4: assess_audio_quality gives every MOS exactly one label, with
\* inclusive lower bounds: >= 4.5 Excellent, [4.0, 4.5) Good, [3.0, 4.0)
\* Fair, [2.0, 3.0) Poor, < 2.0 Bad; and the MOS it returns is the MOS of the
\* comparison the label was derived from.
C4_QualityLabels ==
  ( Done("assess_audio_quality") /\ last.outcome.kind = "return" )
  => LET mos == last.outcome.value
         label == last.outcome.label
     IN  /\ (mos >= 4500) <=> (label = "Excellent")
         /\ (mos >= 4000 /\ mos < 4500) <=> (label = "Good")
         /\ (mos >= 3000 /\ mos < 4000) <=> (label = "Fair")
         /\ (mos >= 2000 /\ mos < 3000) <=> (label = "Poor")
         /\ (mos < 2000) <=> (label = "Bad")
         /\ nativeLog = <<NativeCall("compare_audio_arrays", 0, nativeLog[1].bufs,
                                     <<last.args.rates[1], last.args.rates[1]>>, 0)>>
         /\ mos = MOSFromZimtohrli(NativeDistance(nativeLog[1].bufs[1], last.args.rates[1],
                                                  nativeLog[1].bufs[2], last.args.rates[1]))

\* an assessment whose MOS is exactly 4.0 was labelled Good
C4_Witness ==
  /\ Done("assess_audio_quality")
  /\ last.outcome.kind = "return"
  /\ last.outcome.value = 4000
  /\ last.outcome.label = "Good"

\* ---- batch_compare_audio
\* the MOS batch_compare_audio owes for one test buffer: through a comparator
\* at 48000 Hz, through compare_audio at the given rate otherwise
BatchExpected(reference_audio, test_audio, rate) ==
  IF rate = 48000
  THEN compare(ZimtohrliComparator(1), reference_audio, test_audio, FALSE).outcome.value
  ELSE compare_audio(reference_audio, rate, test_audio, rate, FALSE).outcome.value

\* C5: batch_compare_audio returns one MOS per test buffer, in input order:
\* element i is the comparison of the reference with test buffer i, on the
\* 48000 Hz path and on the other-rate path, and an empty list gives an empty
\* list.
C5_BatchInOrder ==
  ( Done("batch_compare_audio") /\ last.outcome.kind = "return" )
  => LET reference_audio == last.args.bufs[1]
         test_audios == Tail(last.args.bufs)
         rate == last.args.rates[1]
     IN  /\ Len(last.outcome.values) = Len(test_audios)
         /\ \A i \in 1..Len(test_audios) :
              last.outcome.values[i] = BatchExpected(reference_audio, test_audios[i], rate)
         /\ (test_audios = <<>>) => (last.outcome.values = <<>>)

\* a batch of two test buffers returned two different MOS values
C5_Witness ==
  /\ Done("batch_compare_audio")
  /\ last.outcome.kind = "return"
  /\ Len(last.args.bufs) = 3
  /\ Len(last.outcome.values) = 2
  /\ last.outcome.values[1] # last.outcome.values[2]

LogCount(fn) == Cardinality({i \in 1..Len(nativeLog) : nativeLog[i].fn = fn})

\* C6: at 48000 Hz batch_compare_audio constructs exactly one comparator for
\* the whole call, whatever the number of test buffers, and makes every
\* comparison through it; at any other rate it constructs none and makes
\* every comparison through compare_audio with the given rate for both
\* buffers.
C6_OneComparatorPerBatch ==
  Done("batch_compare_audio")
  => LET rate == last.args.rates[1]
         n == Len(last.args.bufs) - 1
         returned == last.outcome.kind = "return"
     IN  IF rate = 48000
         THEN /\ nativeHandles = 1
              /\ LogCount("Pyohrli") = 1
              /\ nativeLog[1].fn = "Pyohrli"
              /\ \A i \in 2..Len(nativeLog) :
                   /\ nativeLog[i].fn \in {"Pyohrli.distance", "MOSFromZimtohrli"}
                   /\ nativeLog[i].fn = "Pyohrli.distance"
                        => nativeLog[i].handle = nativeLog[1].handle
              /\ returned => LogCount("Pyohrli.distance") = n
         ELSE /\ nativeHandles = 0
              /\ \A i \in 1..Len(nativeLog) :
                   /\ nativeLog[i].fn = "compare_audio_arrays"
                   /\ nativeLog[i].rates = <<rate, rate>>
              /\ returned => Len(nativeLog) = n

\* a batch of two test buffers at 48000 Hz returned
C6_Witness ==
  /\ Done("batch_compare_audio")
  /\ last.outcome.kind = "return"
  /\ last.args.rates[1] = 48000
  /\ Len(last.outcome.values) = 2
  /\ LogCount("Pyohrli.distance") = 2

\* ---- load_and_compare_audio_files and the package bootstrap
UsedDecoder(decoder) == \E i \in 1..Len(decoderLog) : decoderLog[i][1] = decoder

\* C7: load_and_compare_audio_files decodes with the first decoder whenever
\* it is available, uses the second exactly when the first is unavailable,
\* raises the no-decoder failure exactly when neither is available, and lets
\* every other failure propagate unchanged.
C7_DecoderFallback ==
  last.op = "load_and_compare_audio_files"
  => LET first == "librosa" \in installed
         second == "soundfile" \in installed
     IN  /\ first => (UsedDecoder("librosa") /\ ~UsedDecoder("soundfile"))
         /\ UsedDecoder("soundfile") <=> (~first /\ second)
         /\ (last.outcome.exc = NoDecoderError) <=> (~first /\ ~second)
         /\ (first /\ last.args.faults[1] # "") => last.outcome.exc = last.args.faults[1]

\* C8: importing the package never fails because a decoding module is
\* missing; when the decoding modules are missing the three file-utility
\* names are left out of the package namespace; and every name listed in
\* __all__ is bound.
C8_OptionalExports ==
  imported # "no"
  => /\ ("_zimtohrli" \in installed) => (imported = "ok")
     /\ (imported = "ok" /\ installed \cap {"librosa", "soundfile"} = {})
          => (namespace \cap UtilNames = {})
     /\ (imported = "ok") => (AllList \subseteq namespace)

\* ---- the CLI wrapper
Ran == cli.run.exit # 0 - 1
HasModules == Importable("core", installed) /\ "soundfile" \in installed

\* the reference as compare_audio receives it, and the k-th comparison
CliReference == LET ra == sf_read(cli.path_a, "")
                IN  IF Len(ra.audio.shape) > 1 THEN FirstChannel(ra.audio) ELSE ra.audio
CliOther(k) == LET rb == sf_read(cli.path_b[k], "")
               IN  IF Len(rb.audio.shape) > 1 THEN FirstChannel(rb.audio) ELSE rb.audio
CliCompare(k) ==
  compare_audio(CliReference, sf_read(cli.path_a, "").sr, CliOther(k),
                sf_read(cli.path_b[k], "").sr, cli.output_zimtohrli_distance)
CliFails(k) ==
  \/ sf_read(cli.path_b[k], "").exc # ""
  \/ CliCompare(k).outcome.kind = "raise"
CliFailing == {k \in 1..Len(cli.path_b) : CliFails(k)}
CliFirstFailing == CHOOSE k \in CliFailing : \A j \in CliFailing : k <= j

\* C9: when all n comparison files succeed, standard output holds exactly n
\* lines, line i being the value computed for the i-th --path_b against the
\* one reference; verbose diagnostics and error messages go to standard
\* error only.
C9_OneLinePerFile ==
  ( Ran /\ HasModules /\ sf_read(cli.path_a, "").exc = "" /\ CliFailing = {} )
  => /\ Len(cli.run.stdout) = Len(cli.path_b)
     /\ \A i \in 1..Len(cli.path_b) : cli.run.stdout[i] = CliCompare(i).outcome.value
     /\ cli.run.stderr = IF cli.verbose
                         THEN [i \in 1..(Len(cli.path_b) + 1) |-> ErrLine("Loaded", i - 1)]
                         ELSE <<>>

\* a verbose run over two comparison files wrote two different values
C9_Witness ==
  /\ Ran /\ cli.run.exit = 0
  /\ cli.verbose
  /\ Len(cli.path_b) = 2
  /\ Len(cli.run.stdout) = 2
  /\ cli.run.stdout[1] # cli.run.stdout[2]

\* C10: a failure to load the reference, or to load or compare the k-th
\* comparison file, is reported on standard error and ends the run with a
\* non-zero exit status; no later file is loaded or compared, and standard
\* output holds exactly the results of the files before the failing one.
\* The exit status is 0 only if every comparison succeeded.
C10_FailureEndsRun ==
  Ran
  => LET run == cli.run
         lastErr == run.stderr[Len(run.stderr)]
     IN  IF ~HasModules
         THEN run.exit # 0 /\ run.stdout = <<>> /\ run.loads = <<>> /\ run.stderr # <<>>
         ELSE IF sf_read(cli.path_a, "").exc # ""
         THEN /\ run.exit # 0
              /\ run.stdout = <<>>
              /\ run.loads = <<0>>
              /\ run.compares = <<>>
              /\ run.stderr # <<>> /\ lastErr = ErrLine("Error loading", 0)
         ELSE IF CliFailing # {}
         THEN LET k == CliFirstFailing
              IN  /\ run.exit # 0
                  /\ run.loads = [i \in 1..(k + 1) |-> i - 1]
                  /\ Len(run.compares) <= k
                  /\ Len(run.stdout) = k - 1
                  /\ \A i \in 1..(k - 1) : run.stdout[i] = CliCompare(i).outcome.value
                  /\ run.stderr # <<>>
                  /\ lastErr.index = k
                  /\ lastErr.msg \in {"Error loading", "Error comparing"}
         ELSE run.exit = 0 /\ Len(run.stdout) = Len(cli.path_b)

\* a run over two comparison files printed the first result and stopped at
\* the second file with exit status 1
C10_Witness ==
  /\ Ran /\ cli.run.exit = 1
  /\ Len(cli.path_b) = 2
  /\ Len(cli.run.stdout) = 1
  /\ cli.run.loads = <<0, 1, 2>>

\* the samples of the first channel of a file, one per frame
FileFirstChannel(file) == [j \in 1..Len(file.frames) |-> <<file.frames[j][1]>>]

\* C11: the CLI wrapper calls compare_audio only with one-dimensional
\* buffers: in every iteration of the loop a multi-channel reference and a
\* multi-channel comparison signal have each been replaced by their first
\* channel.
C11_FirstChannelOnly ==
  ( Ran /\ HasModules )
  => \A i \in 1..Len(cli.run.compares) :
       LET c == cli.run.compares[i]
       IN  /\ ndim(c.a) = 1 /\ ndim(c.b) = 1
           /\ c.a.data = FileFirstChannel(cli.path_a)
           /\ c.b.data = FileFirstChannel(cli.path_b[i])
           /\ \A j \in 1..Len(c.native) : \A b \in 1..Len(c.native[j].bufs) :
                ndim(c.native[j].bufs[b]) = 1

\* a run compared a two-channel reference with a two-channel comparison file
\* and printed the result
C11_Witness ==
  /\ Ran /\ cli.run.exit = 0
  /\ cli.path_a.channels = 2
  /\ Len(cli.path_b) >= 1 /\ cli.path_b[1].channels = 2
  /\ Len(cli.run.stdout) >= 1
  /\ ndim(cli.run.compares[1].a) = 1

\* ---- the build scripts
BuildEnded == build.pc = "done"

ToolWaitedOn == IF build.pc = "configuring" THEN build.tools.configure ELSE build.tools.build

\* C12: whenever a build that began the manifest swap ends (success, a
\* configure or build failure, a timeout, any exception, a failure between
\* the two renames included), CMakeLists.txt exists again and holds the
\* original manifest's content.
C12_OriginalRestored ==
  ( BuildEnded /\ build.began /\ build.found.original = "original" )
  => build.fs.original = "original"

\* C13: the build step is invoked only after the configure step returned
\* exit status 0; after a failed configure step the build step is never
\* invoked; a failure of either step ends the build as a failure raised to
\* the caller, never as a success.
C13_ConfigureThenBuild ==
  /\ ( \E i \in 1..Len(build.invoked) : build.invoked[i] = "build" )
     => /\ build.invoked = <<"configure", "build">>
        /\ Len(build.returned) >= 1
        /\ build.returned[1] = [step |-> "configure", returncode |-> 0]
  /\ ( Len(build.returned) >= 1 /\ build.returned[1].returncode # 0 )
     => build.invoked = <<"configure">>
  /\ ( BuildEnded /\ \E i \in 1..Len(build.returned) : build.returned[i].returncode # 0 )
     => build.outcome = "CalledProcessError"

C13_Witness ==
  /\ BuildEnded /\ build.invoked = <<"configure", "build">>
  /\ build.returned = <<[step |-> "configure", returncode |-> 0],
                        [step |-> "build", returncode |-> 1]>>
  /\ build.outcome = "CalledProcessError"

\* C14: in every build variant a configure or build step whose tool never
\* returns is ended by a timeout: whenever the script waits on such a tool,
\* a timeout is armed.
C14_StepsTimeBounded ==
  ( build.pc \in {"configuring", "building"} /\ ToolWaitedOn = "hang" )
  => build.timeout > 0

\* ---- temporary directories
\* C15: the temporary directory created by a file-based comparison path or
\* by the minimal-project build probe no longer exists when its owning
\* operation ends, whichever step after the creation failed, and also on
\* success.
C15_ScratchRemoved == scratch.pc = "done" => ~scratch.dir_exists

\* ---- the report-suite scripts
EveryCasePassed ==
  /\ Len(report.verdicts) = report.n
  /\ \A i \in 1..Len(report.verdicts) : report.verdicts[i] = "match"
  /\ report.script = "true_direct_comparison"
     => /\ Len(report.mos_verdicts) = report.n
        /\ \A i \in 1..Len(report.mos_verdicts) : report.mos_verdicts[i] = "match"

\* C16: a report-suite script exits with status 0 only if every case of its
\* catalogue passed; when a case fails, mismatches or errors, or the
\* reference implementation is unavailable, the exit status is non-zero.
C16_ExitZeroOnlyIfAllPassed ==
  ( report.pc = "done" /\ report.exit = 0 ) => ( report.available /\ EveryCasePassed )

RECURSIVE LastParseable(_)
LastParseable(stdout) ==
  IF stdout = <<>> THEN Failure
  ELSE IF stdout[Len(stdout)].kind = "number" THEN Value(stdout[Len(stdout)].value)
  ELSE LastParseable(SubSeq(stdout, 1, Len(stdout) - 1))

\* C17: when the binary exits with status 0 the value taken as its result
\* is the last line of its output that parses as a number, whatever lines
\* precede or follow it; a non-zero exit status, or an output without a
\* parseable line, is a binary failure.
C17_LastParseableLine ==
  report.invocation.made
  => report.invocation.result =
       IF report.invocation.returncode = 0
       THEN LastParseable(report.invocation.stdout) ELSE Failure

\* ---- the comparator's properties
\* C18: for every comparator, after any sequence of compare and analyze
\* calls (accepted or rejected), sample_rate returns 48000, which is
\* get_expected_sample_rate(), num_rotators returns the same strictly
\* positive value as right after construction, and the comparator still
\* wraps the one native-core instance created at its construction.
C18_ComparatorProperties ==
  /\ \A c \in 1..Len(comparators) : comparators[c] = ZimtohrliComparator(c)
  /\ Len(comparators) <= nativeHandles
  /\ Done("ZimtohrliComparator.sample_rate")
     => /\ last.outcome = Returned(48000)
        /\ last.outcome.value = get_expected_sample_rate
        /\ nativeLog = <<NativeCall("Pyohrli.sample_rate", last.args.comparator, <<>>, <<>>, 0)>>
  /\ Done("ZimtohrliComparator.num_rotators")
     => /\ last.outcome = Returned(NumRotators)
        /\ last.outcome.value > 0
        /\ nativeLog = <<NativeCall("Pyohrli.num_rotators", last.args.comparator, <<>>, <<>>, 0)>>

C18_Witness ==
  /\ Len(comparators) >= 1
  /\ Done("ZimtohrliComparator.sample_rate")
  /\ last.outcome.value = 48000
  /\ comparators[last.args.comparator].zimtohrli = last.args.comparator

\* ---- numerical contracts of the conversion and of self-comparison
MosOf(d) == zimtohrli_distance_to_mos(d).outcome.value

\* C19: zimtohrli_distance_to_mos is monotonically non-increasing in the
\* distance, returns a MOS in [1, 5] for every non-negative distance, and
\* its result depends on the distance argument alone.
C19_MosMonotoneBounded ==
  Done("zimtohrli_distance_to_mos")
  => LET d == last.args.d
     IN  /\ last.outcome.kind = "return"
         /\ d >= 0 => ( last.outcome.value >= 1000 /\ last.outcome.value <= 5000 )
         /\ \A d2 \in Distances :
              /\ d < d2 => last.outcome.value >= MosOf(d2)
              /\ d2 < d => MosOf(d2) >= last.outcome.value
         /\ last.outcome.value = MosOf(d)
         /\ nativeLog = <<NativeCall("MOSFromZimtohrli", 0, <<>>, <<>>, d)>>
         /\ nativeHandles = 0

C19_Witness ==
  /\ Done("zimtohrli_distance_to_mos")
  /\ last.args.d = 2
  /\ last.outcome.value < MosOf(1) /\ last.outcome.value > MosOf(3)

Validating == report.script \in {"compare_implementations", "actual_vs_expected_comparison"}

\* C21: in a validation run a case outside its range or tolerance does not
\* stop the run: case k is judged as the k-th, every case of the catalogue
\* has exactly one verdict when the loop is left, whatever the earlier
\* verdicts, and the overall verdict is failure if and only if at least one
\* case failed.
C21_EveryCaseJudged ==
  ( Validating /\ report.available )
  => /\ report.pc \in {"binary", "judge", "validate"}
        => ( Len(report.verdicts) = report.k - 1 /\ report.k <= report.n )
     /\ report.pc \in {"summary", "validated", "save", "done"}
        => Len(report.verdicts) = report.n
     /\ report.pc = "done"
        => /\ ~report.success <=> \E i \in 1..Len(report.verdicts) : report.verdicts[i] # "match"
           /\ ~report.success => report.exit # 0

C21_Witness ==
  /\ Validating /\ report.pc = "done" /\ Len(report.verdicts) >= 2
  /\ report.verdicts[1] = "mismatch" /\ report.verdicts[2] = "match"
  /\ ~report.success

\* C22: for every combination of per-case outcomes, the one in which every
\* case errors included, a comparison run that left its loops prints its
\* summary: the counts and rates never abort the run, and the summary is
\* printed before the JSON report is written and whether or not the
\* writing succeeds.
C22_SummaryAlwaysPrinted ==
  ( report.script \in ReportScripts /\ report.available )
  => /\ report.pc \in {"save", "done"} => report.printed
     /\ report.saved => report.printed

\* C23: true_direct_comparison reports overall success only if every case
\* of its catalogue was compared by both implementations without error and
\* matched, in the distance table and in the MOS table.
C23_SuccessMeansAllMatched ==
  ( report.script = "true_direct_comparison" /\ report.pc = "done" /\ report.success )
  => EveryCasePassed

\* ---- verify_install
\* C24: verify_install exits with status 0 if and only if every item of its
\* checklist passed; a check that raises counts as failed and the later
\* checks still run; and on an installation whose package imports and
\* exports the documented surface, with every comparison behaving as
\* specified, every item passes and the exit status is 0.
C24_VerifyInstall ==
  verify.pc = "done"
  => /\ Len(verify.results) = TotalTests
     /\ verify.exit = 0 <=> \A i \in 1..TotalTests : verify.results[i]
     /\ ( /\ imported = "ok" /\ AllList \subseteq namespace
          /\ verify.results[3] /\ verify.results[4] /\ verify.results[6] )
        => verify.exit = 0

\* ---- manifest files after a build
Swapped ==
  /\ build.began /\ build.fault = 0
  /\ build.found.original = "original" /\ build.found.alternate = "alternate"

\* C25: a build that swapped manifests leaves the manifest files as it
\* found them: after it ends, on every exit path, the alternate manifest
\* exists again under its own name with its content, CMakeLists.txt holds
\* the original, and no .backup file remains.
C25_SwapUndone ==
  ( BuildEnded /\ Swapped )
  => build.fs = ManifestFiles("original", "alternate", "absent")

\* C26: a build that performs no manifest swap (the alternate manifest is
\* absent, or the full-build opt-in is set) leaves CMakeLists.txt and any
\* existing CMakeLists.txt.backup unchanged on every exit path.
C26_NoSwapNoChange ==
  ( BuildEnded /\ ~build.began )
  => /\ build.fs.original = build.found.original
     /\ build.fs.backup = build.found.backup

\* ---- the default comparator
\* C27: get_default_comparator is lazy and shared: importing the module
\* constructs no comparator, the first successful call constructs exactly
\* one, every later call returns that same instance without constructing,
\* so at most one default comparator is ever constructed; a call whose
\* construction fails leaves the default unset.
C27_LazyShared ==
  /\ nativeHandles <= 1
  /\ default_comparator = <<>> <=> nativeHandles = 0
  /\ default_comparator # <<>> => default_comparator = <<ZimtohrliComparator(1)>>
  /\ last.op = "get_default_comparator"
     => IF last.outcome.kind = "return"
        THEN /\ default_comparator # <<>>
             /\ last.outcome.value = default_comparator[1].zimtohrli
             /\ Len(nativeLog) <= 1
        ELSE default_comparator = <<>> /\ nativeLog = <<>>

C27_Witness ==
  /\ last.op = "get_default_comparator" /\ last.outcome.kind = "return"
  /\ nativeLog = <<>> /\ nativeHandles = 1

\* ---- locating the reference binary
Usable == { i \in 1..NumPaths : probe.candidates[i] = "ok" }

\* C28: find_zimtohrli_binary returns the first candidate path, in list
\* order, whose --version invocation exits with status 0; a candidate that is
\* missing, cannot be executed, times out or exits non-zero does not stop the
\* probing; the process exits with status 1 only when no candidate is usable;
\* an explicitly given path bypasses the probing.
C28_FirstUsableCandidate ==
  probe.pc = "done"
  => IF probe.binary_path # ""
     THEN probe.binary = NumPaths + 1 /\ probe.k = 0 /\ probe.exit # 1
     ELSE IF Usable = {}
     THEN probe.binary = 0 /\ probe.exit = 1
     ELSE /\ probe.binary \in Usable
          /\ \A i \in Usable : probe.binary <= i
          /\ probe.exit # 1

\* ---- dependency checks
AnythingMissing ==
  \/ \E i \in 1..Len(ToolList(depcheck.variant)) :
       depcheck.tools[ToolList(depcheck.variant)[i]] # "ok"
  \/ \E i \in 1..Len(LibList) : ~depcheck.libs[LibList[i]]

\* C29: the dependency-check routine of every build variant ends with a
\* boolean verdict for every combination of present and absent build tools
\* and libraries, the package-query tool being absent included: it never
\* raises, and it returns false when anything is missing.
C29_AlwaysVerdict ==
  depcheck.pc = "done"
  => /\ depcheck.exc = ""
     /\ depcheck.result \in {"True", "False"}
     /\ AnythingMissing => depcheck.result = "False"

\* ---- signal-set generators
\* C30: each script's test-signal-set generator is deterministic: two
\* invocations with the same parameters in one process return identical
\* signal sets, noise signals included, whatever random numbers were drawn
\* between them, and an invocation does not change the random state seen by
\* the rest of the process.
C30_GeneratorDeterministic ==
  /\ generator.calls = 2 => generator.latest = generator.first
  /\ generator.calls >= 1 => generator.left = generator.entered
====
